---- MODULE Spec2Model ----
(***************************************************************************)
(* The personal assistant bot of src/telegram_bot.py: the intent           *)
(* classifier (FinancialIntentAnalyzer, IntentDetector), the time          *)
(* expression extractor (TimeParser) and the message handlers of           *)
(* PersonalAssistantBot.                                                   *)
(*                                                                         *)
(* A string of the program is a sequence of characters, each character a   *)
(* one-element TLA+ string.  The Turkish letters are written as digraphs   *)
(* that stand for ONE character: "ii" dotless i, "oe" o-umlaut, "ue"       *)
(* u-umlaut, "sh" s-cedilla, "gh" soft g, "ch" c-cedilla, "aa" a-circumflex*)
(* and "II" capital dotted I.  A message is kept in the state as its       *)
(* sequence of words; Join gives the string the program receives.          *)
(* Times are seconds since midnight of day 0; amounts are hundredths of    *)
(* a lira; confidences are thousandths.                                    *)
(***************************************************************************)
EXTENDS Integers, Sequences, FiniteSets, TLC

VARIABLES text, now, intent, fin, parsed, events, replies,
          transactions, users, requests, chat_manager, sent, updates,
          query_failed,
          tasks, task_reply, calls

(***************************************************************************)
(* Strings                                                                 *)
(***************************************************************************)
Digits == {"0", "1", "2", "3", "4", "5", "6", "7", "8", "9"}

DigitVal(c) ==
    CASE c = "0" -> 0 [] c = "1" -> 1 [] c = "2" -> 2 [] c = "3" -> 3
      [] c = "4" -> 4 [] c = "5" -> 5 [] c = "6" -> 6 [] c = "7" -> 7
      [] c = "8" -> 8 [] c = "9" -> 9

\* \s of the regular expressions, and the characters str.strip() removes
IsSpace(c) == c \in {" ", "\t", "\n", "\r"}

\* str.lower(), one character at a time: Python maps "I" to "i"; capital
\* dotted "II" lowers to two characters and is kept out of the messages
UpperToLower ==
    ("A" :> "a") @@ ("B" :> "b") @@ ("C" :> "c") @@ ("D" :> "d") @@
    ("E" :> "e") @@ ("F" :> "f") @@ ("G" :> "g") @@ ("H" :> "h") @@
    ("I" :> "i") @@ ("J" :> "j") @@ ("K" :> "k") @@ ("L" :> "l") @@
    ("M" :> "m") @@ ("N" :> "n") @@ ("O" :> "o") @@ ("P" :> "p") @@
    ("Q" :> "q") @@ ("R" :> "r") @@ ("S" :> "s") @@ ("T" :> "t") @@
    ("U" :> "u") @@ ("V" :> "v") @@ ("W" :> "w") @@ ("X" :> "x") @@
    ("Y" :> "y") @@ ("Z" :> "z") @@ ("OE" :> "oe") @@ ("UE" :> "ue") @@
    ("SH" :> "sh") @@ ("GH" :> "gh") @@ ("CH" :> "ch")

LowerChar(c) == IF c \in DOMAIN UpperToLower THEN UpperToLower[c] ELSE c

lower(s) == [i \in 1..Len(s) |-> LowerChar(s[i])]

\* re.IGNORECASE: characters are compared after lowering, and the sre
\* engine treats "i" and dotless "ii" as the same letter
FoldChar(c) == IF LowerChar(c) = "ii" THEN "i" ELSE LowerChar(c)

fold(s) == [i \in 1..Len(s) |-> FoldChar(s[i])]

\* str.strip()
strip(s) ==
    IF \A i \in 1..Len(s) : IsSpace(s[i]) THEN <<>>
    ELSE LET a == CHOOSE i \in 1..Len(s) :
                     ~IsSpace(s[i]) /\ \A j \in 1..(i - 1) : IsSpace(s[j])
             b == CHOOSE i \in 1..Len(s) :
                     ~IsSpace(s[i]) /\ \A j \in (i + 1)..Len(s) : IsSpace(s[j])
         IN  SubSeq(s, a, b)

\* re.sub(r'\s+', ' ', s)
RECURSIVE CollapseFrom(_, _)
CollapseFrom(s, i) ==
    IF i > Len(s) THEN <<>>
    ELSE IF IsSpace(s[i])
         THEN IF i > 1 /\ IsSpace(s[i - 1]) THEN CollapseFrom(s, i + 1)
              ELSE <<" ">> \o CollapseFrom(s, i + 1)
         ELSE <<s[i]>> \o CollapseFrom(s, i + 1)

collapse_spaces(s) == CollapseFrom(s, 1)

\* the word w stands in s at position i
HasAt(s, i, w) ==
    /\ i >= 1
    /\ i + Len(w) - 1 <= Len(s)
    /\ \A k \in 1..Len(w) : s[i + k - 1] = w[k]

\* Python's  w in s
Contains(s, w) == \E i \in 1..(Len(s) - Len(w) + 1) : HasAt(s, i, w)

ContainsAny(s, ws) == \E w \in ws : Contains(s, w)

\* sum(1 for keyword in keywords if keyword in s), keywords a list
CountIn(s, keywords) ==
    Cardinality({k \in 1..Len(keywords) : Contains(s, keywords[k])})

\* the least member of a set of positions, 0 for the empty set
MinOrZero(S) ==
    IF S = {} THEN 0 ELSE CHOOSE i \in S : \A j \in S : i <= j

\* the position after the longest run of digits / of white space from i
DigitsEnd(s, i) ==
    CHOOSE j \in i..(Len(s) + 1) :
        /\ \A k \in i..(j - 1) : s[k] \in Digits
        /\ (j = Len(s) + 1 \/ s[j] \notin Digits)

SpacesEnd(s, i) ==
    CHOOSE j \in i..(Len(s) + 1) :
        /\ \A k \in i..(j - 1) : IsSpace(s[k])
        /\ (j = Len(s) + 1 \/ ~IsSpace(s[j]))

\* "." of the regular expressions matches everything but a newline
NoNewline(s, a, b) == \A k \in a..b : s[k] # "\n"

\* s with the characters at the positions of cut removed
RECURSIVE RemoveFrom(_, _, _)
RemoveFrom(s, cut, i) ==
    IF i > Len(s) THEN <<>>
    ELSE IF i \in cut THEN RemoveFrom(s, cut, i + 1)
         ELSE <<s[i]>> \o RemoveFrom(s, cut, i + 1)

RemoveAt(s, cut) == RemoveFrom(s, cut, 1)

\* int(digits)
RECURSIVE IntUpTo(_, _)
IntUpTo(s, n) ==
    IF n = 0 THEN 0 ELSE 10 * IntUpTo(s, n - 1) + DigitVal(s[n])

int(s) == IntUpTo(s, Len(s))

\* the words of a message joined by single blanks
RECURSIVE Join(_)
Join(words) ==
    IF words = <<>> THEN <<>>
    ELSE IF Len(words) = 1 THEN words[1]
         ELSE words[1] \o <<" ">> \o Join(Tail(words))

(***************************************************************************)
(* InputValidator                                                          *)
(***************************************************************************)
MaxAmount == 10000000

MaxDescriptionLen == 200

None == [none |-> TRUE]

\* float(s) for s of the form digits or digits.digits, in hundredths; exact
\* for at most two decimals (later decimals are dropped)
float(s) ==
    LET dot  == IF \E i \in 1..Len(s) : s[i] = "."
                THEN CHOOSE i \in 1..Len(s) : s[i] = "." ELSE Len(s) + 1
        frac == SubSeq(s, dot + 1, Len(s))
        f1   == IF Len(frac) >= 1 THEN DigitVal(frac[1]) ELSE 0
        f2   == IF Len(frac) >= 2 THEN DigitVal(frac[2]) ELSE 0
    IN  100 * int(SubSeq(s, 1, dot - 1)) + 10 * f1 + f2

\* the characters " and ` are written "dq" and "bq"
\* str.replace(',', '.')
replace_comma(s) == [i \in 1..Len(s) |-> IF s[i] = "," THEN "." ELSE s[i]]

\* validate_amount: the pair (amount, error), valid FALSE standing for the
\* amount None that comes with an error message
validate_amount(amount_str) ==
    LET cleaned == replace_comma(
                       SelectSeq(amount_str,
                                 LAMBDA c : c \in Digits \cup {".", ","}))
        amount  == float(cleaned)
    IN  IF amount <= 0 THEN [valid |-> FALSE, amount |-> 0]
        ELSE IF amount > 100 * MaxAmount THEN [valid |-> FALSE, amount |-> 0]
        ELSE [valid |-> TRUE, amount |-> amount]

sanitize_description(description) ==
    IF description = <<>> THEN <<>>
    ELSE LET sanitized ==
                 SelectSeq(description,
                           LAMBDA c : c \notin {"<", ">", "dq", "'", "bq",
                                                "\n", "\r", "\t"})
             limit == IF Len(sanitized) < MaxDescriptionLen
                      THEN Len(sanitized) ELSE MaxDescriptionLen
         IN  strip(SubSeq(sanitized, 1, limit))

(***************************************************************************)
(* FinancialIntentAnalyzer                                                 *)
(***************************************************************************)
income_keywords ==
    << <<"k", "a", "z", "a", "n", "d", "ii", "m">>,
       <<"a", "l", "d", "ii", "m">>,
       <<"g", "e", "l", "i", "r">>,
       <<"s", "a", "t", "t", "ii", "m">>,
       <<"k", "o", "m", "i", "s", "y", "o", "n">>,
       <<"oe", "d", "e", "m", "e", " ", "a", "l", "d", "ii", "m">>,
       <<"s", "a", "t", "ii", "sh", " ", "y", "a", "p", "t", "ii", "m">>,
       <<"p", "a", "r", "a", " ", "k", "a", "z", "a", "n", "d", "ii", "m">>,
       <<"g", "e", "l", "d", "i">>,
       <<"k", "i", "r", "a", " ", "g", "e", "l", "i", "r", "i">> >>

expense_keywords ==
    << <<"h", "a", "r", "c", "a", "d", "ii", "m">>,
       <<"oe", "d", "e", "d", "i", "m">>,
       <<"a", "l", "d", "ii", "m">>,
       <<"m", "a", "s", "r", "a", "f">>,
       <<"g", "i", "d", "e", "r">>,
       <<"f", "a", "t", "u", "r", "a">>,
       <<"p", "a", "r", "a", " ", "h", "a", "r", "c", "a", "d", "ii", "m">>,
       <<"s", "a", "t", "ii", "n", " ", "a", "l", "d", "ii", "m">>,
       <<"oe", "d", "e", "m", "e", " ", "y", "a", "p", "t", "ii", "m">> >>

araba_keywords ==
    << <<"a", "r", "a", "b", "a">>,
       <<"g", "a", "l", "e", "r", "i">>,
       <<"o", "t", "o", "m", "o", "b", "i", "l">>,
       <<"c", "i", "v", "i", "c">>,
       <<"b", "m", "w">>,
       <<"m", "e", "r", "c", "e", "d", "e", "s">>,
       <<"a", "r", "a", "ch">>,
       <<"o", "t", "o">> >>

emlak_keywords ==
    << <<"e", "m", "l", "a", "k">>,
       <<"e", "v">>,
       <<"d", "a", "i", "r", "e">>,
       <<"k", "i", "r", "a", "l", "a", "m", "a">>,
       <<"s", "a", "t", "ii", "sh", " ", "k", "o", "m", "i", "s", "y", "o", "n", "u">>,
       <<"g", "a", "y", "r", "i", "m", "e", "n", "k", "u", "l">> >>

kisisel_keywords ==
    << <<"k", "i", "sh", "i", "s", "e", "l">>,
       <<"oe", "z", "e", "l">>,
       <<"k", "e", "n", "d", "i">> >>

fp_after_1 ==
    { <<"n", "o", "t">>,
       <<"k", "a", "gh", "ii", "t">>,
       <<"p", "a", "r", "a", " ", "b", "i", "r", "i", "m", "i">>,
       <<"d", "e", "gh", "e", "r">>,
       <<"f", "i", "y", "a", "t">>,
       <<"g", "i", "b", "i">>,
       <<"b", "e", "n", "z", "e", "r", "i">> }

fp_before_2 ==
    { <<"k", "a", "ch">>,
       <<"n", "e", " ", "k", "a", "d", "a", "r">>,
       <<"h", "a", "n", "g", "i">>,
       <<"n", "e", "d", "e", "n">> }

fp_after_3 ==
    { <<"d", "e", "gh", "e", "r", "i", "n", "d", "e">>,
       <<"k", "a", "d", "a", "r">>,
       <<"c", "i", "v", "a", "r", "ii", "n", "d", "a">> }

fp_verbs_3 ==
    { <<"a", "l", "d", "ii", "m">>,
       <<"s", "a", "t", "t", "ii", "m">>,
       <<"oe", "d", "e", "d", "i", "m">>,
       <<"k", "a", "z", "a", "n", "d", "ii", "m">> }

fp_before_4 ==
    { <<"s", "a", "d", "e", "c", "e">> }

fp_after_5 ==
    { <<"oe", "r", "n", "e", "k">>,
       <<"m", "e", "s", "e", "l", "a">>,
       <<"d", "i", "y", "e", "l", "i", "m">> }

context_income_words ==
    { <<"s", "a", "t", "ii", "sh">>,
       <<"k", "o", "m", "i", "s", "y", "o", "n">>,
       <<"k", "a", "z", "a", "n", "ch">>,
       <<"g", "e", "l", "i", "r">> }

gelir_boost ==
    { <<"k", "a", "z", "a", "n", "d", "ii", "m">>,
       <<"s", "a", "t", "t", "ii", "m">>,
       <<"g", "e", "l", "i", "r">> }

gider_boost ==
    { <<"h", "a", "r", "c", "a", "d", "ii", "m">>,
       <<"oe", "d", "e", "d", "i", "m">>,
       <<"a", "l", "d", "ii", "m">> }

report_keywords ==
    { <<"n", "e", " ", "k", "a", "d", "a", "r">>,
       <<"t", "o", "p", "l", "a", "m">>,
       <<"oe", "z", "e", "t">>,
       <<"r", "a", "p", "o", "r">>,
       <<"d", "u", "r", "u", "m">>,
       <<"h", "e", "s", "a", "p">>,
       <<"k", "aa", "r">>,
       <<"z", "a", "r", "a", "r">> }

reminder_keywords ==
    { <<"h", "a", "t", "ii", "r", "l", "a", "t">>,
       <<"r", "a", "n", "d", "e", "v", "u">>,
       <<"t", "o", "p", "l", "a", "n", "t", "ii">>,
       <<"e", "t", "k", "i", "n", "l", "i", "k">>,
       <<"g", "oe", "r", "ue", "sh", "m", "e">>,
       <<"b", "u", "l", "u", "sh", "m", "a">>,
       <<"y", "a", "p", "a", "c", "a", "k">> }

calendar_keywords ==
    { <<"t", "a", "k", "v", "i", "m">>,
       <<"a", "j", "a", "n", "d", "a">>,
       <<"p", "r", "o", "g", "r", "a", "m">>,
       <<"c", "a", "l", "e", "n", "d", "a", "r">> }

reset_keywords ==
    { <<"y", "e", "n", "i", " ", "k", "o", "n", "u", "sh", "m", "a">>,
       <<"s", "ii", "f", "ii", "r", "l", "a">>,
       <<"t", "e", "m", "i", "z", "l", "e">>,
       <<"b", "a", "sh", "t", "a", "n">>,
       <<"r", "e", "s", "e", "t">>,
       <<"y", "e", "n", "i", "l", "e">> }

help_keywords ==
    { <<"y", "a", "r", "d", "ii", "m">>,
       <<"h", "e", "l", "p">>,
       <<"n", "a", "s", "ii", "l">>,
       <<"k", "o", "m", "u", "t">>,
       <<"n", "e", " ", "y", "a", "p", "a", "b", "i", "l", "i", "r">>,
       <<"?">> }

categories_araba_gelir ==
    << <<"s", "a", "t", "ii", "sh">>,
       <<"s", "e", "r", "v", "i", "s">>,
       <<"t", "a", "m", "i", "r">>,
       <<"d", "i", "gh", "e", "r">> >>

categories_araba_gider ==
    << <<"a", "l", "ii", "m">>,
       <<"y", "a", "k", "ii", "t">>,
       <<"b", "a", "k", "ii", "m">>,
       <<"k", "i", "r", "a">>,
       <<"p", "e", "r", "s", "o", "n", "e", "l">>,
       <<"r", "e", "k", "l", "a", "m">>,
       <<"s", "i", "g", "o", "r", "t", "a">>,
       <<"d", "i", "gh", "e", "r">> >>

categories_emlak_gelir ==
    << <<"s", "a", "t", "ii", "sh", "_", "k", "o", "m", "i", "s", "y", "o", "n", "u">>,
       <<"k", "i", "r", "a", "l", "a", "m", "a", "_", "k", "o", "m", "i", "s", "y", "o", "n", "u">>,
       <<"d", "a", "n", "ii", "sh", "m", "a", "n", "l", "ii", "k">>,
       <<"e", "m", "l", "a", "k", "_", "s", "a", "t", "ii", "sh">>,
       <<"d", "i", "gh", "e", "r">> >>

categories_emlak_gider ==
    << <<"p", "a", "z", "a", "r", "l", "a", "m", "a">>,
       <<"u", "l", "a", "sh", "ii", "m">>,
       <<"o", "f", "i", "s">>,
       <<"l", "i", "s", "a", "n", "s">>,
       <<"r", "e", "k", "l", "a", "m">>,
       <<"d", "i", "gh", "e", "r">> >>

categories_kisisel_gelir ==
    << <<"m", "a", "a", "sh">>,
       <<"k", "i", "r", "a", "_", "g", "e", "l", "i", "r", "i">>,
       <<"y", "a", "t", "ii", "r", "ii", "m">>,
       <<"b", "o", "r", "ch", "_", "oe", "d", "e", "m", "e">>,
       <<"h", "e", "d", "i", "y", "e">>,
       <<"d", "i", "gh", "e", "r">> >>

categories_kisisel_gider ==
    << <<"y", "e", "m", "e", "k">>,
       <<"u", "l", "a", "sh", "ii", "m">>,
       <<"e", "v">>,
       <<"e", "gh", "l", "e", "n", "c", "e">>,
       <<"s", "a", "gh", "l", "ii", "k">>,
       <<"a", "l", "ii", "sh", "v", "e", "r", "i", "sh">>,
       <<"f", "a", "t", "u", "r", "a">>,
       <<"d", "i", "gh", "e", "r">> >>
time_words ==
    { <<"y", "a", "r", "ii", "n">>,
       <<"b", "u", "g", "ue", "n">>,
       <<"s", "a", "a", "t">>,
       <<"s", "o", "n", "r", "a">>,
       <<"g", "ue", "n">> }
tl == <<"t", "l">>

\* \d+\s*tl matched from position i: the position after it, 0 for no match
NumTlEnd(s, i) ==
    IF i <= Len(s) /\ s[i] \in Digits
    THEN LET e == SpacesEnd(s, DigitsEnd(s, i))
         IN  IF HasAt(s, e, tl) THEN e + 2 ELSE 0
    ELSE 0

\* the positions after the matches of \d+\s*tl in s
NumTlEnds(s) == {NumTlEnd(s, i) : i \in 1..Len(s)} \ {0}

\* \d+\s*tl.*?(w1|w2|...)
AmountThenWord(s, ws) ==
    \E e \in NumTlEnds(s) : \E j \in e..Len(s) : \E w \in ws :
        HasAt(s, j, w) /\ NoNewline(s, e, j - 1)

\* (w1|w2|...).*?\d+\s*tl
WordThenAmount(s, ws) ==
    \E w \in ws : \E j \in 1..Len(s) :
        /\ HasAt(s, j, w)
        /\ \E i \in (j + Len(w))..Len(s) :
               NumTlEnd(s, i) > 0 /\ NoNewline(s, j + Len(w), i - 1)

\* \d+\s*tl.*?(w1|...)(?!\s+(v1|...))
AmountThenWordNotVerb(s, ws, vs) ==
    \E e \in NumTlEnds(s) : \E j \in e..Len(s) : \E w \in ws :
        /\ HasAt(s, j, w)
        /\ NoNewline(s, e, j - 1)
        /\ LET p == j + Len(w)
               q == SpacesEnd(s, p)
           IN  ~(q > p /\ \E v \in vs : HasAt(s, q, v))

\* any of false_positive_patterns is found in s
false_positive(s) ==
    \/ AmountThenWord(s, fp_after_1)
    \/ WordThenAmount(s, fp_before_2)
    \/ AmountThenWordNotVerb(s, fp_after_3, fp_verbs_3)
    \/ WordThenAmount(s, fp_before_4)
    \/ AmountThenWord(s, fp_after_5)

\* (\d+(?:[.,]\d+)?)\s*tl matched from position i:
\* the end of group 1 and of the match, 0 for no match
AmountMatchAt(s, i) ==
    IF i <= Len(s) /\ s[i] \in Digits
    THEN LET d1   == DigitsEnd(s, i)
             frac == /\ d1 < Len(s)
                     /\ s[d1] \in {".", ","}
                     /\ s[d1 + 1] \in Digits
             d2   == IF frac THEN DigitsEnd(s, d1 + 1) ELSE d1
             e    == SpacesEnd(s, d2)
         IN  IF HasAt(s, e, tl) THEN [num |-> d2, end |-> e + 2]
             ELSE [num |-> 0, end |-> 0]
    ELSE [num |-> 0, end |-> 0]

\* the match of the amount pattern that starts at position i
amount_match_from(i, m) == [start |-> i, num |-> m.num, end |-> m.end]

amount_match_at(s, i) ==
    IF i = 0 THEN [start |-> 0, num |-> 0, end |-> 0]
    ELSE amount_match_from(i, AmountMatchAt(s, i))

\* re.search of the amount pattern: start, end of group 1, end; start 0 for
\* no match
amount_match(s) ==
    amount_match_at(s, MinOrZero({i \in 1..Len(s) : AmountMatchAt(s, i).end > 0}))

\* _determine_transaction_type with >= for > in the first comparison: equal
\* scores give gelir
determine_type_income_on_tie(s) ==
    IF CountIn(s, income_keywords) >= CountIn(s, expense_keywords)
    THEN "gelir" ELSE "gider"

\* _determine_transaction_type without the context words: equal scores give
\* gider
determine_type_without_context(s) ==
    IF CountIn(s, income_keywords) > CountIn(s, expense_keywords)
    THEN "gelir" ELSE "gider"

_determine_transaction_type(s) ==
    LET income_score  == CountIn(s, income_keywords)
        expense_score == CountIn(s, expense_keywords)
    IN  IF income_score > expense_score THEN "gelir"
        ELSE IF expense_score > income_score THEN "gider"
        ELSE IF ContainsAny(s, context_income_words) THEN "gelir"
        ELSE "gider"

\* _determine_account_type that returns the best account also when its
\* score is 0
determine_account_type_without_default(s) ==
    LET araba_score   == CountIn(s, araba_keywords)
        emlak_score   == CountIn(s, emlak_keywords)
        kisisel_score == CountIn(s, kisisel_keywords)
    IN  IF araba_score >= emlak_score /\ araba_score >= kisisel_score THEN "araba"
        ELSE IF emlak_score >= kisisel_score THEN "emlak" ELSE "kisisel"

_determine_account_type(s) ==
    LET araba   == CountIn(s, araba_keywords)
        emlak   == CountIn(s, emlak_keywords)
        kisisel == CountIn(s, kisisel_keywords)
        best    == IF araba >= emlak /\ araba >= kisisel THEN "araba"
                   ELSE IF emlak >= kisisel THEN "emlak" ELSE "kisisel"
        score   == IF best = "araba" THEN araba
                   ELSE IF best = "emlak" THEN emlak ELSE kisisel
    IN  IF score > 0 THEN best ELSE "kisisel"

categories(account_type, transaction_type) ==
    CASE account_type = "araba" /\ transaction_type = "gelir" ->
             categories_araba_gelir
      [] account_type = "araba" /\ transaction_type = "gider" ->
             categories_araba_gider
      [] account_type = "emlak" /\ transaction_type = "gelir" ->
             categories_emlak_gelir
      [] account_type = "emlak" /\ transaction_type = "gider" ->
             categories_emlak_gider
      [] account_type = "kisisel" /\ transaction_type = "gelir" ->
             categories_kisisel_gelir
      [] account_type = "kisisel" /\ transaction_type = "gider" ->
             categories_kisisel_gider

diger == <<"d", "i", "gh", "e", "r">>

\* category.replace('_', ' ').split(): the set of its words
RECURSIVE category_words_from(_, _, _)
category_words_from(c, i, word) ==
    IF i > Len(c) THEN (IF word = <<>> THEN {} ELSE {word})
    ELSE IF c[i] = "_" \/ IsSpace(c[i])
         THEN (IF word = <<>> THEN {} ELSE {word})
                  \cup category_words_from(c, i + 1, <<>>)
         ELSE category_words_from(c, i + 1, Append(word, c[i]))

category_words(c) == category_words_from(c, 1, <<>>)

_determine_category(s, account_type, transaction_type) ==
    LET available == categories(account_type, transaction_type)
        hit(k)    == /\ available[k] # diger
                     /\ ContainsAny(s, category_words(available[k]))
    IN  IF \E k \in 1..Len(available) : hit(k)
        THEN available[CHOOSE k \in 1..Len(available) :
                           hit(k) /\ \A j \in 1..(k - 1) : ~hit(j)]
        ELSE diger

\* the positions covered by the non-overlapping matches, found left to
\* right from position i, of a pattern whose match from position p ends
\* before ends[p] (0: no match at p)
RECURSIVE CutSet(_, _)
CutSet(ends, i) ==
    IF i > Len(ends) THEN {}
    ELSE IF ends[i] > 0 THEN (i..(ends[i] - 1)) \cup CutSet(ends, ends[i])
         ELSE CutSet(ends, i + 1)

\* re.sub(pattern, '', s) for such a pattern
RemoveMatches(s, ends) == RemoveAt(s, CutSet(ends, 1))

islem == <<"II", "sh", "l", "e", "m">>

\* re.escape(amount_str)\s*tl, ignoring case, matched from position i
AmountStrTlEnd(s, amount_str, i) ==
    IF HasAt(s, i, amount_str)
    THEN LET e == SpacesEnd(s, i + Len(amount_str))
         IN  IF HasAt(s, e, tl) THEN e + 2 ELSE 0
    ELSE 0

_extract_description(txt, amount_str) ==
    LET f           == fold(txt)
        ends        == [i \in 1..Len(txt) |-> AmountStrTlEnd(f, amount_str, i)]
        description == strip(collapse_spaces(RemoveMatches(txt, ends)))
        sanitized   == sanitize_description(description)
    IN  IF sanitized = <<>> THEN islem ELSE sanitized

_calculate_confidence(s, transaction_type, account_type) ==
    LET boost == \/ transaction_type = "gelir" /\ ContainsAny(s, gelir_boost)
                 \/ transaction_type = "gider" /\ ContainsAny(s, gider_boost)
        c1    == IF boost THEN 500 + 300 ELSE 500
        c2    == IF account_type # "kisisel" THEN c1 + 200 ELSE c1
    IN  IF c2 < 1000 THEN c2 ELSE 1000

\* the FinancialTransaction that detect_financial_intent builds from the
\* validated amount, or None
transaction_of(txt, text_lower, amount_str, amount, ttype, account) ==
    IF ~amount.valid THEN None
    ELSE [account_type     |-> account,
          transaction_type |-> ttype,
          amount           |-> amount.amount,
          category         |-> _determine_category(text_lower, account, ttype),
          description      |-> _extract_description(txt, amount_str),
          confidence       |-> _calculate_confidence(text_lower, ttype, account)]

\* detect_financial_intent from the amount string on
financial_amount(txt, text_lower, amount_str) ==
    transaction_of(txt, text_lower, amount_str, validate_amount(amount_str),
                   _determine_transaction_type(text_lower),
                   _determine_account_type(text_lower))

\* detect_financial_intent from the match of the amount pattern on
financial_match(txt, text_lower, m) ==
    IF m.start = 0 THEN None
    ELSE financial_amount(txt, text_lower,
                          replace_comma(SubSeq(text_lower, m.start, m.num - 1)))

\* detect_financial_intent on the lowered text
financial_lower(txt, text_lower) ==
    IF false_positive(text_lower) THEN None
    ELSE financial_match(txt, text_lower, amount_match(text_lower))

\* detect_financial_intent: the FinancialTransaction, or None
detect_financial_intent(txt) == financial_lower(txt, strip(lower(txt)))

(***************************************************************************)
(* IntentDetector                                                          *)
(***************************************************************************)
_is_financial_report_request(s) == ContainsAny(s, report_keywords)

\* re.search(r'\d{1,2}:\d{2}', s)
HasClockTime(s) ==
    \E p \in 2..(Len(s) - 2) :
        /\ s[p] = ":"
        /\ s[p - 1] \in Digits
        /\ s[p + 1] \in Digits
        /\ s[p + 2] \in Digits

\* min(n * 0.3 + m * 0.2, 1.0) in IEEE double arithmetic, in thousandths:
\* 0.3 + 3 * 0.2 is just above 0.9 and 3 * 0.3 just below it
reminder_score(n, m) ==
    IF n = 1 /\ m = 3 THEN 901
    ELSE IF n = 3 /\ m = 0 THEN 899
    ELSE IF 300 * n + 200 * m < 1000 THEN 300 * n + 200 * m ELSE 1000

_get_reminder_confidence(s) ==
    LET keywords == Cardinality({w \in reminder_keywords : Contains(s, w)})
        times    == Cardinality({w \in time_words : Contains(s, w)})
                        + (IF HasClockTime(s) THEN 1 ELSE 0)
    IN  reminder_score(keywords, times)

_is_calendar_request(s) == ContainsAny(s, calendar_keywords)

_is_reset_request(s) == ContainsAny(s, reset_keywords)

_is_help_request(s) == ContainsAny(s, help_keywords)

\* best_intent that takes the last of the highest confidence
best_intent_last_of_highest(intents) ==
    intents[CHOOSE k \in 1..Len(intents) :
                /\ \A j \in 1..Len(intents) :
                       intents[j].confidence <= intents[k].confidence
                /\ \A j \in (k + 1)..Len(intents) :
                       intents[j].confidence < intents[k].confidence]

\* max(intents, key=lambda x: x[2]): the first of the highest confidence
best_intent(intents) ==
    intents[CHOOSE k \in 1..Len(intents) :
                /\ \A j \in 1..Len(intents) :
                       intents[j].confidence <= intents[k].confidence
                /\ \A j \in 1..(k - 1) :
                       intents[j].confidence < intents[k].confidence]

FinancialThreshold == 600

ReminderThreshold == 500

\* an IntentResult
IntentResult(intent_type, data, confidence) ==
    [intent |-> intent_type, data |-> data, confidence |-> confidence]

\* the list intents of detect_intent, in the order of the appends
intents_of(txt, text_lower, financial_result, reminder_confidence) ==
    SelectSeq(
        << [on |-> IF financial_result = None THEN FALSE
                   ELSE financial_result.confidence > FinancialThreshold,
            intent |-> "financial", data |-> financial_result,
            confidence |-> IF financial_result = None THEN 0
                           ELSE financial_result.confidence],
           [on |-> _is_financial_report_request(text_lower),
            intent |-> "financial_report", data |-> txt, confidence |-> 800],
           [on |-> reminder_confidence > ReminderThreshold,
            intent |-> "reminder", data |-> txt,
            confidence |-> reminder_confidence],
           [on |-> _is_calendar_request(text_lower),
            intent |-> "calendar", data |-> txt, confidence |-> 900],
           [on |-> _is_reset_request(text_lower),
            intent |-> "reset_chat", data |-> txt, confidence |-> 900],
           [on |-> _is_help_request(text_lower),
            intent |-> "help", data |-> txt, confidence |-> 900] >>,
        LAMBDA c : c.on)

\* the tuple chosen from the list intents
intent_of(best) == IntentResult(best.intent, best.data, best.confidence)

\* the return of detect_intent for the list intents
return_intent(txt, intents) ==
    IF intents # <<>> THEN intent_of(best_intent(intents))
    ELSE IntentResult("chat", txt, 300)

\* detect_intent on the lowered text
detect_lower(txt, text_lower) ==
    IF text_lower = <<>> THEN IntentResult("help", None, 1000)
    ELSE return_intent(txt,
                       intents_of(txt, text_lower, detect_financial_intent(txt),
                                  _get_reminder_confidence(text_lower)))

detect_intent(txt) == detect_lower(txt, strip(lower(txt)))

(***************************************************************************)
(* TimeParser                                                              *)
(*                                                                         *)
(* A datetime is a number of seconds since 1 January 00:00:00 of year 0;   *)
(* every year of the model has 365 days.                                   *)
(***************************************************************************)
Minute == 60

Hour == 60 * Minute

Day == 24 * Hour

Year == 365 * Day

\* timedelta(minutes=5) and timedelta(days=365) of _is_valid_time
PastTolerance == 5 * Minute

MaxFuture == 365 * Day

MonthDays == <<31, 28, 31, 30, 31, 30, 31, 31, 30, 31, 30, 31>>

RECURSIVE DaysBefore(_)
DaysBefore(month) ==
    IF month = 1 THEN 0 ELSE DaysBefore(month - 1) + MonthDays[month - 1]

year_of(t) == t \div Year

month_of(t) ==
    LET doy == (t % Year) \div Day
    IN  CHOOSE m \in 1..12 :
            DaysBefore(m) <= doy /\ doy < DaysBefore(m) + MonthDays[m]

day_of(t) == (t % Year) \div Day - DaysBefore(month_of(t)) + 1

second_of(t) == t % Minute

\* datetime(year, month, day, hour, minute, second); raised stands for the
\* ValueError of a field out of range
datetime(year, month, day, hour, minute, second) ==
    IF /\ month \in 1..12
       /\ day >= 1
       /\ day <= MonthDays[month]
       /\ hour \in 0..23
       /\ minute \in 0..59
    THEN [raised |-> FALSE,
          time   |-> year * Year + (DaysBefore(month) + day - 1) * Day
                         + hour * Hour + minute * Minute + second]
    ELSE [raised |-> TRUE, time |-> 0]

\* t.replace(hour=hour, minute=minute, second=0, microsecond=0)
replace_time(t, hour, minute) ==
    datetime(year_of(t), month_of(t), day_of(t), hour, minute, 0)

yarin == <<"y", "a", "r", "ii", "n">>

bugun == <<"b", "u", "g", "ue", "n">>

saat == <<"s", "a", "a", "t">>

sonra == <<"s", "o", "n", "r", "a">>

dakika == <<"d", "a", "k", "i", "k", "a">>

NoMatch == [end |-> 0, groups |-> <<>>]

\* a literal of a pattern: as written, or folded when the case is ignored
Lit(w, ignorecase) == IF ignorecase THEN fold(w) ELSE w

\* (\d{1,2}):(\d{2}) matched from position i
ClockAt(s, i) ==
    IF /\ i + 4 <= Len(s)
       /\ s[i] \in Digits /\ s[i + 1] \in Digits /\ s[i + 2] = ":"
       /\ s[i + 3] \in Digits /\ s[i + 4] \in Digits
    THEN [end |-> i + 5,
          groups |-> <<SubSeq(s, i, i + 1), SubSeq(s, i + 3, i + 4)>>]
    ELSE IF /\ i >= 1 /\ i + 3 <= Len(s)
            /\ s[i] \in Digits /\ s[i + 1] = ":"
            /\ s[i + 2] \in Digits /\ s[i + 3] \in Digits
    THEN [end |-> i + 4,
          groups |-> <<SubSeq(s, i, i), SubSeq(s, i + 2, i + 3)>>]
    ELSE NoMatch

\* (?:saat\s+)?(\d{1,2}):(\d{2}) matched from position i
SaatClockAt(s, i, ignorecase) ==
    IF HasAt(s, i, Lit(saat, ignorecase)) /\ SpacesEnd(s, i + 4) > i + 4
    THEN ClockAt(s, SpacesEnd(s, i + 4))
    ELSE ClockAt(s, i)

\* (\d{1,2})'?(?:de|da|te|ta) matched from position i
HourSuffixAt(s, i) ==
    IF i >= 1 /\ i <= Len(s) /\ s[i] \in Digits
    THEN LET d == IF i + 1 <= Len(s) /\ s[i + 1] \in Digits
                  THEN i + 2 ELSE i + 1
             q == IF d <= Len(s) /\ s[d] = "'" THEN d + 1 ELSE d
         IN  IF /\ q + 1 <= Len(s)
                /\ s[q] \in {"d", "t"}
                /\ s[q + 1] \in {"e", "a"}
             THEN [end |-> q + 2, groups |-> <<SubSeq(s, i, d - 1)>>]
             ELSE NoMatch
    ELSE NoMatch

\* word\s+ matched from position i: the position after it, 0 for no match
WordSpacesEnd(s, i, w) ==
    IF HasAt(s, i, w) /\ SpacesEnd(s, i + Len(w)) > i + Len(w)
    THEN SpacesEnd(s, i + Len(w))
    ELSE 0

\* (\d+)\s+unit\s+sonra matched from position i
LaterAt(s, i, unit, ignorecase) ==
    IF i >= 1 /\ i <= Len(s) /\ s[i] \in Digits
    THEN LET d  == DigitsEnd(s, i)
             u  == SpacesEnd(s, d)
             so == WordSpacesEnd(s, u, Lit(unit, ignorecase))
         IN  IF u > d /\ so > 0 /\ HasAt(s, so, Lit(sonra, ignorecase))
             THEN [end |-> so + 5, groups |-> <<SubSeq(s, i, d - 1)>>]
             ELSE NoMatch
    ELSE NoMatch

\* (\d{1,2})\. matched from position i: the position after it, 0 for none
ShortNumberDotEnd(s, i) ==
    IF i >= 1 /\ i <= Len(s) /\ s[i] \in Digits
    THEN LET d == IF i + 1 <= Len(s) /\ s[i + 1] \in Digits
                  THEN i + 2 ELSE i + 1
         IN  IF d <= Len(s) /\ s[d] = "." THEN d + 1 ELSE 0
    ELSE 0

\* (\d{1,2})\.(\d{1,2})\.\s+saat\s+(\d{1,2}):(\d{2}) matched from position i
DateClockAt(s, i, ignorecase) ==
    LET a == ShortNumberDotEnd(s, i)
        b == IF a > 0 THEN ShortNumberDotEnd(s, a) ELSE 0
        c == IF b > 0 /\ SpacesEnd(s, b) > b
             THEN WordSpacesEnd(s, SpacesEnd(s, b), Lit(saat, ignorecase))
             ELSE 0
        m == IF c > 0 THEN ClockAt(s, c) ELSE NoMatch
    IN  IF m.end > 0
        THEN [end |-> m.end,
              groups |-> <<SubSeq(s, i, a - 2), SubSeq(s, a, b - 2)>>
                             \o m.groups]
        ELSE NoMatch

NumPatterns == 9

\* pattern p of self.patterns matched from position i of s
PatternAt(p, s, i, ignorecase) ==
    CASE p = 1 ->
             LET q == WordSpacesEnd(s, i, Lit(yarin, ignorecase))
             IN  IF q > 0 THEN SaatClockAt(s, q, ignorecase) ELSE NoMatch
      [] p = 2 ->
             LET q == WordSpacesEnd(s, i, Lit(bugun, ignorecase))
             IN  IF q > 0 THEN SaatClockAt(s, q, ignorecase) ELSE NoMatch
      [] p = 3 -> SaatClockAt(s, i, ignorecase)
      [] p = 4 ->
             LET q == WordSpacesEnd(s, i, Lit(yarin, ignorecase))
             IN  IF q > 0 THEN HourSuffixAt(s, q) ELSE NoMatch
      [] p = 5 ->
             LET q == WordSpacesEnd(s, i, Lit(bugun, ignorecase))
             IN  IF q > 0 THEN HourSuffixAt(s, q) ELSE NoMatch
      [] p = 6 -> HourSuffixAt(s, i)
      [] p = 7 -> LaterAt(s, i, saat, ignorecase)
      [] p = 8 -> LaterAt(s, i, dakika, ignorecase)
      [] p = 9 -> DateClockAt(s, i, ignorecase)

\* re.search(pattern, s): the start of the leftmost match, 0 for none
search(p, s) ==
    MinOrZero({i \in 1..Len(s) : PatternAt(p, s, i, FALSE).end > 0})

\* re.sub(pattern, '', s, flags=re.IGNORECASE)
sub_ignorecase(p, s) ==
    RemoveMatches(s, [i \in 1..Len(s) |-> PatternAt(p, fold(s), i, TRUE).end])

\* _tomorrow_with_time without the day added
tomorrow_with_time_same_day(t, hour, minute) ==
    replace_time(t, int(hour), int(minute))

_tomorrow_with_time(t, hour, minute) ==
    replace_time(t + Day, int(hour), int(minute))

_today_with_time(t, hour, minute) == replace_time(t, int(hour), int(minute))

_time_only(t, hour, minute) == replace_time(t, int(hour), int(minute))

_tomorrow_hour(t, hour) == replace_time(t + Day, int(hour), 0)

_today_hour(t, hour) == replace_time(t, int(hour), 0)

_hour_only(t, hour) == replace_time(t, int(hour), 0)

\* _hours_later with timedelta(minutes=...) for timedelta(hours=...)
hours_later_as_minutes(t, hours) ==
    [raised |-> FALSE, time |-> t + int(hours) * Minute]

_hours_later(t, hours) == [raised |-> FALSE, time |-> t + int(hours) * Hour]

_minutes_later(t, minutes) ==
    [raised |-> FALSE, time |-> t + int(minutes) * Minute]

\* target of _date_with_time moved to the next year when it is past
next_year_if_past(target, t) ==
    IF target.raised THEN target
    ELSE IF target.time < t
    THEN [raised |-> FALSE, time |-> target.time + Year]
    ELSE target

\* the ValueError is caught inside: raised stands for the result None
_date_with_time(t, day, month, hour, minute) ==
    next_year_if_past(datetime(year_of(t), int(month), int(day),
                               int(hour), int(minute), 0), t)

\* time_func(now, *match.groups()) of pattern p
time_func(p, t, g) ==
    CASE p = 1 -> _tomorrow_with_time(t, g[1], g[2])
      [] p = 2 -> _today_with_time(t, g[1], g[2])
      [] p = 3 -> _time_only(t, g[1], g[2])
      [] p = 4 -> _tomorrow_hour(t, g[1])
      [] p = 5 -> _today_hour(t, g[1])
      [] p = 6 -> _hour_only(t, g[1])
      [] p = 7 -> _hours_later(t, g[1])
      [] p = 8 -> _minutes_later(t, g[1])
      [] p = 9 -> _date_with_time(t, g[1], g[2], g[3], g[4])

\* _is_valid_time: the roll forward is an assignment to the local name
\* parsed_time, the datetime of the caller stays as it is
_is_valid_time(parsed_time, t, s) ==
    LET local == IF /\ parsed_time < t - PastTolerance
                    /\ ~Contains(s, yarin)
                    /\ ~Contains(s, sonra)
                 THEN parsed_time + Day
                 ELSE parsed_time
    IN  local <= t + MaxFuture

NotFound == [found |-> FALSE]

\* try_result without the call of _is_valid_time
try_result_without_validity(p, txt, t, text_lower, start, m, result) ==
    IF result.raised THEN NotFound
    ELSE [found   |-> TRUE,
          time    |-> result.time,
          message |-> collapse_spaces(strip(sub_ignorecase(p, txt))),
          expr    |-> SubSeq(text_lower, start, m.end - 1),
          pattern |-> p]

\* the loop body of parse_time_from_text once time_func has returned
try_result(p, txt, t, text_lower, start, m, result) ==
    IF result.raised THEN NotFound
    ELSE IF ~_is_valid_time(result.time, t, text_lower) THEN NotFound
    ELSE [found   |-> TRUE,
          time    |-> result.time,
          message |-> collapse_spaces(strip(sub_ignorecase(p, txt))),
          expr    |-> SubSeq(text_lower, start, m.end - 1),
          pattern |-> p]

\* the loop body of parse_time_from_text for the match m
try_groups(p, txt, t, text_lower, start, m) ==
    try_result(p, txt, t, text_lower, start, m, time_func(p, t, m.groups))

\* the loop body of parse_time_from_text for the match that starts at start
try_match(p, txt, t, text_lower, start) ==
    IF start = 0 THEN NotFound
    ELSE try_groups(p, txt, t, text_lower, start,
                    PatternAt(p, text_lower, start, FALSE))

\* the body of the loop of parse_time_from_text for pattern p: the tuple it
\* returns (with the number of the pattern), found FALSE when the loop goes
\* on to the next pattern
try_pattern(p, txt, t, text_lower) ==
    try_match(p, txt, t, text_lower, search(p, text_lower))

\* the loop of parse_time_from_text from pattern p on; found FALSE stands
\* for the result (None, text, None)
RECURSIVE parse_from(_, _, _, _)
first_result(r, p, txt, t, text_lower) ==
    IF r.found THEN r ELSE parse_from(p + 1, txt, t, text_lower)

parse_from(p, txt, t, text_lower) ==
    IF p > NumPatterns
    THEN [found |-> FALSE, time |-> 0, message |-> txt, expr |-> <<>>,
          pattern |-> 0]
    ELSE first_result(try_pattern(p, txt, t, text_lower), p, txt, t, text_lower)

\* parse_time_from_text: (parsed_time, message, matched expression), and
\* the number of the pattern that gave them
parse_time_from_text(txt, t) == parse_from(1, txt, t, strip(lower(txt)))

(***************************************************************************)
(* GoogleServicesManager.create_calendar_event and handle_reminder         *)
(***************************************************************************)
EventMinutes == 30

MinMessageLen == 3

\* create_calendar_event: the calendar after the call; the event is there
\* when the service is available and the insert raises nothing
create_calendar_event(calendar, title, start_time, duration, calendar_ok) ==
    IF calendar_ok
    THEN Append(calendar, [title |-> title, start |-> start_time,
                           end |-> start_time + duration * Minute])
    ELSE calendar

\* handle_reminder without the test of the length of the message
handle_reminder_no_length_check(calendar, r, calendar_ok) ==
    IF ~r.found
    THEN [events |-> calendar, replies |-> <<"time_not_understood">>]
    ELSE IF r.message = <<>>
    THEN [events |-> calendar, replies |-> <<"reminder_text_missing">>]
    ELSE IF calendar_ok
    THEN [events  |-> create_calendar_event(calendar, r.message, r.time,
                                            EventMinutes, calendar_ok),
          replies |-> <<"reminder_set">>]
    ELSE [events  |-> calendar, replies |-> <<"calendar_error">>]

\* handle_reminder that does not look at what create_calendar_event returned
handle_reminder_ignoring_result(calendar, r, calendar_ok) ==
    IF ~r.found
    THEN [events |-> calendar, replies |-> <<"time_not_understood">>]
    ELSE IF r.message = <<>> \/ Len(strip(r.message)) < MinMessageLen
    THEN [events |-> calendar, replies |-> <<"reminder_text_missing">>]
    ELSE [events  |-> create_calendar_event(calendar, r.message, r.time,
                                            EventMinutes, calendar_ok),
          replies |-> <<"reminder_set">>]

\* handle_reminder: the calendar and the replies sent; r is what
\* parse_time_from_text returned for the text
handle_reminder(calendar, r, calendar_ok) ==
    IF ~r.found
    THEN [events |-> calendar, replies |-> <<"time_not_understood">>]
    ELSE IF r.message = <<>> \/ Len(strip(r.message)) < MinMessageLen
    THEN [events |-> calendar, replies |-> <<"reminder_text_missing">>]
    ELSE IF calendar_ok
    THEN [events  |-> create_calendar_event(calendar, r.message, r.time,
                                            EventMinutes, calendar_ok),
          replies |-> <<"reminder_set">>]
    ELSE [events  |-> create_calendar_event(calendar, r.message, r.time,
                                            EventMinutes, calendar_ok),
          replies |-> <<"calendar_error">>]

(***************************************************************************)
(* Config: the limits read from the environment.  The model runs the bot   *)
(* with small values of the four settings.                                 *)
(***************************************************************************)
MAX_SESSIONS == 2

SESSION_TIMEOUT == 1

RATE_LIMIT_REQUESTS == 1

RATE_LIMIT_WINDOW == 2

(***************************************************************************)
(* RateLimiter                                                             *)
(***************************************************************************)
\* is_allowed with > for >= in the comparison with max_requests
is_allowed_one_more(reqs, user_id, t) ==
    LET user_requests ==
            SelectSeq(reqs[user_id],
                      LAMBDA req_time : t - req_time < RATE_LIMIT_WINDOW)
    IN  IF Len(user_requests) > RATE_LIMIT_REQUESTS
        THEN [allowed  |-> FALSE,
              requests |-> [reqs EXCEPT ![user_id] = user_requests]]
        ELSE [allowed  |-> TRUE,
              requests |-> [reqs EXCEPT ![user_id] =
                                Append(user_requests, t)]]

\* is_allowed: the answer and the request times kept for the user
is_allowed(reqs, user_id, t) ==
    LET user_requests ==
            SelectSeq(reqs[user_id],
                      LAMBDA req_time : t - req_time < RATE_LIMIT_WINDOW)
    IN  IF Len(user_requests) >= RATE_LIMIT_REQUESTS
        THEN [allowed  |-> FALSE,
              requests |-> [reqs EXCEPT ![user_id] = user_requests]]
        ELSE [allowed  |-> TRUE,
              requests |-> [reqs EXCEPT ![user_id] =
                                Append(user_requests, t)]]

(***************************************************************************)
(* DatabaseManager                                                         *)
(***************************************************************************)
AccountTypes == {"araba", "emlak", "kisisel"}

TransactionTypes == {"gelir", "gider"}

\* the CHECK constraints of the transactions table
transactions_check(row) ==
    /\ row.account_type \in AccountTypes
    /\ row.transaction_type \in TransactionTypes
    /\ row.amount > 0

\* the date of a moment, as a day number
date(t) == t \div Day

\* an INSERT that writes an expense as a negative amount into a table that
\* has no CHECK constraints
unchecked_signed_insert(table, row) ==
    [ok    |-> TRUE,
     table |-> Append(table,
                      [row EXCEPT !.amount =
                           IF row.transaction_type = "gider"
                           THEN 0 - row.amount ELSE row.amount])]

\* the INSERT statement of add_transaction against the schema: a row that
\* breaks a CHECK constraint raises and nothing is stored
insert_transaction(table, row) ==
    IF transactions_check(row)
    THEN [ok |-> TRUE, table |-> Append(table, row)]
    ELSE [ok |-> FALSE, table |-> table]

\* add_transaction as INSERT OR REPLACE under one fixed id: the new row takes
\* the place of the rows stored before
add_transaction_replacing(table, user_id, transaction, t, db_ok) ==
    IF ~db_ok THEN [ok |-> FALSE, table |-> table]
    ELSE [ok    |-> TRUE,
          table |-> <<[id               |-> 1,
                       user_id          |-> user_id,
                       account_type     |-> transaction.account_type,
                       transaction_type |-> transaction.transaction_type,
                       amount           |-> transaction.amount,
                       category         |-> transaction.category,
                       description      |-> transaction.description,
                       date             |-> date(t)]>>]

\* add_transaction: whether the row was committed, and the table afterwards
add_transaction(table, user_id, transaction, t, db_ok) ==
    IF ~db_ok THEN [ok |-> FALSE, table |-> table]
    ELSE insert_transaction(table,
             [id               |-> Len(table) + 1,
              user_id          |-> user_id,
              account_type     |-> transaction.account_type,
              transaction_type |-> transaction.transaction_type,
              amount           |-> transaction.amount,
              category         |-> transaction.category,
              description      |-> transaction.description,
              date             |-> date(t)])

\* the first day that a period of the summary covers
date_filter(period, t) ==
    CASE period = "day"  -> date(t)
      [] period = "week" -> date(t - 7 * Day)
      [] period = "year" -> date(t) - (date(t) % 365)
      [] OTHER           -> date(t) - (day_of(t) - 1)

RECURSIVE SumAmounts(_)
SumAmounts(rows) ==
    IF rows = <<>> THEN 0 ELSE Head(rows).amount + SumAmounts(Tail(rows))

\* get_financial_summary: the rows selected and the totals per direction;
\* a failed query gives the empty result
get_financial_summary(table, user_id, period, account_type, t, db_ok) ==
    LET selected ==
            SelectSeq(table, LAMBDA row :
                /\ row.user_id = user_id
                /\ IF period = "day" THEN row.date = date_filter(period, t)
                   ELSE row.date >= date_filter(period, t)
                /\ account_type \in AccountTypes => row.account_type = account_type)
        of_type(ty) == SelectSeq(selected, LAMBDA row : row.transaction_type = ty)
    IN  IF ~db_ok THEN [rows |-> <<>>, gelir |-> 0, gider |-> 0]
        ELSE [rows  |-> selected,
              gelir |-> SumAmounts(of_type("gelir")),
              gider |-> SumAmounts(of_type("gider"))]

NoRow == 0 - 1

\* update_user_activity: INSERT OR REPLACE of the user's row; a failure is
\* logged and leaves the table alone
update_user_activity(table, user_id, t, db_ok) ==
    IF db_ok THEN [table EXCEPT ![user_id] = t] ELSE table

(***************************************************************************)
(* ReportFormatter                                                         *)
(***************************************************************************)
\* format_financial_summary: the kind of report text
format_financial_summary(summary) ==
    IF summary.rows = <<>> THEN "no_transactions" ELSE "financial_summary"

(***************************************************************************)
(* ChatSessionManager: sessions maps a user to the chat started for him,   *)
(* last_activity lists the users in the order their entries were made      *)
(***************************************************************************)
RemoveKey(f, k) == [u \in DOMAIN f \ {k} |-> f[u]]

\* _remove_session without the pop of last_activity
remove_session_keeping_activity(cm, user_id) ==
    [sessions      |-> RemoveKey(cm.sessions, user_id),
     last_activity |-> cm.last_activity,
     started       |-> cm.started]

_remove_session(cm, user_id) ==
    [sessions      |-> RemoveKey(cm.sessions, user_id),
     last_activity |-> SelectSeq(cm.last_activity,
                                 LAMBDA e : e.user_id # user_id),
     started       |-> cm.started]

\* remove_session that removes nothing
remove_session_keeping_session(cm, user_id) == cm

remove_session(cm, user_id) == _remove_session(cm, user_id)

RECURSIVE RemoveAll(_, _)
RemoveAll(cm, entries) ==
    IF entries = <<>> THEN cm
    ELSE RemoveAll(_remove_session(cm, Head(entries).user_id), Tail(entries))

_cleanup_old_sessions(cm, t) ==
    RemoveAll(cm, SelectSeq(cm.last_activity,
                            LAMBDA e : t - e.time > SESSION_TIMEOUT))

\* oldest_user with max for min: the first of the newest
newest_user(entries) ==
    LET i == CHOOSE i \in 1..Len(entries) :
                 /\ \A j \in 1..Len(entries) : entries[i].time >= entries[j].time
                 /\ \A j \in 1..(i - 1) : entries[j].time < entries[i].time
    IN  entries[i].user_id

\* min(last_activity.keys(), key = the time): the first of the oldest
oldest_user(entries) ==
    LET i == CHOOSE i \in 1..Len(entries) :
                 /\ \A j \in 1..Len(entries) : entries[i].time <= entries[j].time
                 /\ \A j \in 1..(i - 1) : entries[j].time > entries[i].time
    IN  entries[i].user_id

\* last_activity[user_id] = t
SetActivity(entries, user_id, t) ==
    IF \E i \in 1..Len(entries) : entries[i].user_id = user_id
    THEN [i \in 1..Len(entries) |->
             IF entries[i].user_id = user_id
             THEN [user_id |-> user_id, time |-> t] ELSE entries[i]]
    ELSE Append(entries, [user_id |-> user_id, time |-> t])

\* get_or_create_session: the manager afterwards; the session returned is
\* sessions[user_id]
get_or_create_session(cm, user_id, t) ==
    LET clean  == _cleanup_old_sessions(cm, t)
        room   == IF Cardinality(DOMAIN clean.sessions) >= MAX_SESSIONS
                  THEN _remove_session(clean, oldest_user(clean.last_activity))
                  ELSE clean
        opened == IF user_id \in DOMAIN clean.sessions THEN clean
                  ELSE [sessions      |-> [u \in DOMAIN room.sessions \cup {user_id} |->
                                              IF u = user_id THEN room.started + 1
                                              ELSE room.sessions[u]],
                        last_activity |-> room.last_activity,
                        started       |-> room.started + 1]
    IN  [opened EXCEPT !.last_activity = SetActivity(@, user_id, t)]

(***************************************************************************)
(* PersonalAssistantBot: each handler gives the part of the state that it  *)
(* changes and the replies that it sends                                   *)
(***************************************************************************)
\* handle_financial_transaction that does not look at the result of
\* add_transaction
handle_financial_transaction_unchecked(table, user_id, transaction, t, db_ok) ==
    [transactions |-> add_transaction(table, user_id, transaction, t,
                                      db_ok).table,
     replies      |-> <<"transaction_confirmation", "quick_actions">>]

handle_financial_transaction(table, user_id, transaction, t, db_ok) ==
    LET success == add_transaction(table, user_id, transaction, t, db_ok)
    IN  [transactions |-> success.table,
         replies      |-> IF success.ok
                          THEN <<"transaction_confirmation", "quick_actions">>
                          ELSE <<"database_error">>]

hafta == <<"h", "a", "f", "t", "a">>

yil == <<"y", "ii", "l">>

gun == <<"g", "ue", "n">>

araba == <<"a", "r", "a", "b", "a">>

emlak == <<"e", "m", "l", "a", "k">>

kisisel_tr == <<"k", "i", "sh", "i", "s", "e", "l">>

kisisel_ascii == <<"k", "i", "s", "i", "s", "e", "l">>

\* the period that handle_financial_report reads from the text
report_period(text_lower) ==
    IF Contains(text_lower, bugun) \/ Contains(text_lower, gun) THEN "day"
    ELSE IF Contains(text_lower, hafta) THEN "week"
    ELSE IF Contains(text_lower, yil) THEN "year"
    ELSE "month"

\* the account that handle_financial_report reads from the text
report_account(text_lower) ==
    IF Contains(text_lower, araba) THEN "araba"
    ELSE IF Contains(text_lower, emlak) THEN "emlak"
    ELSE IF Contains(text_lower, kisisel_tr) \/ Contains(text_lower, kisisel_ascii)
    THEN "kisisel"
    ELSE "none"

handle_financial_report(table, user_id, period, account_type, t, db_ok) ==
    <<format_financial_summary(
          get_financial_summary(table, user_id, period, account_type, t, db_ok))>>

\* handle_chat that hands the lowered text to the generative model
handle_chat_sends_lowered(cm, user_id, txt, t, ai_ok) ==
    LET after == get_or_create_session(cm, user_id, t)
    IN  [chat    |-> after,
         sent    |-> <<[session |-> after.sessions[user_id], text |-> lower(txt),
                        ok |-> ai_ok]>>,
         replies |-> IF ai_ok THEN <<"ai_response">> ELSE <<"ai_error">>]

\* handle_chat that sends the message again when the call has failed and
\* answers as if the second call had returned
handle_chat_retrying(cm, user_id, txt, t, ai_ok) ==
    LET after == get_or_create_session(cm, user_id, t)
        call  == [session |-> after.sessions[user_id], text |-> txt, ok |-> ai_ok]
    IN  [chat    |-> after,
         sent    |-> IF ai_ok THEN <<call>> ELSE <<call, call>>,
         replies |-> <<"ai_response">>]

\* handle_chat: the session manager afterwards, the call of send_message
\* (the session, the text sent and whether the call returned) and the replies
handle_chat(cm, user_id, txt, t, ai_ok) ==
    LET after == get_or_create_session(cm, user_id, t)
    IN  [chat    |-> after,
         sent    |-> <<[session |-> after.sessions[user_id], text |-> txt,
                        ok |-> ai_ok]>>,
         replies |-> IF ai_ok THEN <<"ai_response">> ELSE <<"ai_error">>]

ReportPeriods == {"week", "month", "day", "year"}

\* the callback data of the buttons that the bot shows
CallbackData ==
    {"financial_summary", "detailed_report", "report_week", "report_month",
     "report_araba", "report_emlak", "report_kisisel", "report_year",
     "calendar", "new_chat", "help", "add_transaction"}

\* "report_x" without its prefix
report_suffix ==
    [d \in {"report_week", "report_month", "report_year", "report_araba",
            "report_emlak", "report_kisisel"} |->
        CASE d = "report_week"  -> "week"
          [] d = "report_month" -> "month"
          [] d = "report_year"  -> "year"
          [] d = "report_araba" -> "araba"
          [] d = "report_emlak" -> "emlak"
          [] OTHER              -> "kisisel"]

IntentWords ==
    { <<"5", "0", "0", " ", "T", "L">>,
       <<"k", "a", "z", "a", "n", "d", "ii", "m">>,
       <<"k", "o", "m", "i", "s", "y", "o", "n">>,
       <<"h", "a", "r", "c", "a", "d", "ii", "m">>,
       <<"a", "l", "d", "ii", "m">>,
       <<"a", "r", "a", "b", "a">>,
       <<"r", "a", "p", "o", "r">>,
       <<"t", "o", "p", "l", "a", "n", "t", "ii">>,
       <<"y", "a", "r", "ii", "n">>,
       <<"?">> }
TimeWords ==
    { <<"y", "a", "r", "ii", "n">>,
       <<"s", "a", "a", "t">>,
       <<"1", "4", ":", "3", "0">>,
       <<"9", ":", "5", "8">>,
       <<"2", "5", ":", "0", "0">>,
       <<"5", "'", "t", "e">>,
       <<"s", "o", "n", "r", "a">>,
       <<"t", "o", "p", "l", "a", "n", "t", "ii">>,
       <<"a", "b">>,
       <<"2">>,
       <<"b", "u", "g", "ue", "n">> }

ContentWords ==
    { <<"t", "o", "p", "l", "a", "n", "t", "ii">>,
       <<"a", "b">> }

MessageWords ==
    { <<"t", "o", "p", "l", "a", "n", "t", "ii">>,
       <<"a", "l", "ii", "sh", "v", "e", "r", "i", "sh">> }
(***************************************************************************)
(* The messages                                                            *)
(***************************************************************************)
MaxWords == 3

MaxTimeWords == 2

\* the sequences of at most n words, and of one to n words
SeqsFromTo(words, lo, n) == UNION {[1..k -> words] : k \in lo..n}

SeqsUpTo(words, n) == SeqsFromTo(words, 1, n)

DigitChars == <<"0", "1", "2", "3", "4", "5", "6", "7", "8", "9">>

\* the decimal numeral of n
RECURSIVE Numeral(_)
Numeral(n) ==
    IF n < 10 THEN <<DigitChars[n + 1]>>
    ELSE Numeral(n \div 10) \o <<DigitChars[(n % 10) + 1]>>

\* the word H:MM
ClockWord(h, m) ==
    Numeral(h) \o <<":", DigitChars[(m \div 10) + 1], DigitChars[(m % 10) + 1]>>

ClockHours == {0, 7, 14, 23}

ClockMinutes == {0, 5, 30, 59}

LaterHours == {0, 2, 24, 8760, 8761}

\* the rest of a message after its time expression
Remainders == SeqsFromTo(MessageWords, 0, 1)

\* "yarin saat H:MM <msg>"
TomorrowTexts ==
    {<<yarin, saat, ClockWord(h, m)>> \o msg :
         h \in ClockHours, m \in ClockMinutes, msg \in Remainders}

\* "N saat sonra <msg>"
HoursLaterTexts ==
    {<<Numeral(n), saat, sonra>> \o msg : n \in LaterHours, msg \in Remainders}

TimeTexts ==
    SeqsUpTo(TimeWords, MaxTimeWords) \cup TomorrowTexts \cup HoursLaterTexts

\* 11 April of year 1 at 10:00:30, and 31 December of year 1 at 23:58:10
NowValues ==
    {Year + 100 * Day + 10 * Hour + 30,
     Year + 364 * Day + 23 * Hour + 58 * Minute + 10}

\* the example messages of the welcome, help and hint texts of the bot
HelpExamples ==
    {<<<<"5", "0", "0", "0">>, <<"T", "L">>, <<"a", "r", "a", "b", "a">>, <<"s", "a", "t", "t", "ii", "m">>>>,
     <<<<"3", "0", "0">>, <<"T", "L">>, <<"y", "a", "k", "ii", "t">>, <<"a", "l", "d", "ii", "m">>>>,
     <<<<"B", "u">>, <<"a", "y">>, <<"n", "e">>, <<"k", "a", "d", "a", "r">>, <<"k", "a", "z", "a", "n", "d", "ii", "m", "?">>>>,
     <<<<"Y", "a", "r", "ii", "n">>, <<"1", "4", ":", "3", "0", "'", "d", "a">>, <<"t", "o", "p", "l", "a", "n", "t", "ii", "m">>, <<"v", "a", "r">>>>,
     <<<<"T", "a", "k", "v", "i", "m", "i", "m", "i">>, <<"g", "oe", "s", "t", "e", "r">>>>,
     <<<<"5", "0", "0">>, <<"T", "L">>, <<"b", "e", "n", "z", "i", "n">>, <<"a", "l", "d", "ii", "m">>>>,
     <<<<"3", "0", "0", "0">>, <<"T", "L">>, <<"a", "r", "a", "b", "a">>, <<"s", "a", "t", "t", "ii", "m">>>>,
     <<<<"1", "5", "0", "0">>, <<"T", "L">>, <<"k", "i", "r", "a">>, <<"g", "e", "l", "i", "r", "i">>>>,
     <<<<"B", "u">>, <<"a", "y">>, <<"n", "e">>, <<"k", "a", "d", "a", "r">>, <<"h", "a", "r", "c", "a", "d", "ii", "m", "?">>>>,
     <<<<"A", "r", "a", "b", "a">>, <<"i", "sh", "i">>, <<"r", "a", "p", "o", "r", "u">>>>,
     <<<<"Y", "a", "r", "ii", "n">>, <<"1", "4", ":", "3", "0", "'", "d", "a">>, <<"d", "o", "k", "t", "o", "r">>, <<"r", "a", "n", "d", "e", "v", "u", "s", "u">>>>,
     <<<<"B", "u", "g", "ue", "n">>, <<"1", "6", ":", "0", "0", "'", "d", "a">>, <<"t", "o", "p", "l", "a", "n", "t", "ii">>>>,
     <<<<"2">>, <<"s", "a", "a", "t">>, <<"s", "o", "n", "r", "a">>, <<"a", "l", "ii", "sh", "v", "e", "r", "i", "sh">>, <<"y", "a", "p">>>>,
     <<<<"B", "u">>, <<"h", "a", "f", "t", "a">>, <<"n", "e">>, <<"k", "a", "d", "a", "r">>, <<"k", "a", "z", "a", "n", "d", "ii", "m", "?">>>>,
     <<<<"A", "y", "l", "ii", "k">>, <<"oe", "z", "e", "t">>>>,
     <<<<"E", "m", "l", "a", "k">>, <<"i", "sh", "i">>, <<"d", "u", "r", "u", "m", "u">>>>,
     <<<<"3", "0", "0">>, <<"T", "L">>, <<"m", "a", "r", "k", "e", "t">>, <<"a", "l", "ii", "sh", "v", "e", "r", "i", "sh", "i">>>>,
     <<<<"Y", "a", "r", "ii", "n">>, <<"1", "4", ":", "3", "0", "'", "d", "a">>, <<"t", "o", "p", "l", "a", "n", "t", "ii">>>>,
     <<<<"1", "5", ":", "4", "5", "'", "t", "e">>, <<"a", "r", "a", "b", "a">>, <<"s", "e", "r", "v", "i", "s", "e">>, <<"g", "oe", "t", "ue", "r">>>>}

\* the example reminders of the help text and of the prompt of handle_reminder
ReminderExamples ==
    {<<<<"Y", "a", "r", "ii", "n">>, <<"1", "4", ":", "3", "0", "'", "d", "a">>, <<"d", "o", "k", "t", "o", "r">>, <<"r", "a", "n", "d", "e", "v", "u", "s", "u">>>>,
     <<<<"B", "u", "g", "ue", "n">>, <<"1", "6", ":", "0", "0", "'", "d", "a">>, <<"t", "o", "p", "l", "a", "n", "t", "ii">>>>,
     <<<<"2">>, <<"s", "a", "a", "t">>, <<"s", "o", "n", "r", "a">>, <<"a", "l", "ii", "sh", "v", "e", "r", "i", "sh">>, <<"y", "a", "p">>>>,
     <<<<"1", "5", ":", "4", "5", "'", "t", "e">>, <<"a", "r", "a", "b", "a">>, <<"s", "e", "r", "v", "i", "s", "e">>, <<"g", "oe", "t", "ue", "r">>>>,
     <<<<"Y", "a", "r", "ii", "n">>, <<"1", "4", ":", "3", "0", "'", "d", "a">>, <<"t", "o", "p", "l", "a", "n", "t", "ii", "m">>, <<"v", "a", "r">>>>}

\* further messages with an amount
AmountExamples ==
    {<<<<"1", ",", "5">>, <<"T", "L">>, <<"k", "a", "z", "a", "n", "d", "ii", "m">>>>,
     <<<<"1", ",", "5">>, <<"T", "L">>, <<"k", "o", "m", "i", "s", "y", "o", "n">>, <<"g", "e", "l", "d", "i">>>>,
     <<<<"1", "0", "0", "0">>, <<"T", "L">>, <<"k", "o", "m", "i", "s", "y", "o", "n">>, <<"g", "e", "l", "d", "i">>>>}

\* "H:MM <msg>"
BareClockTexts ==
    {<<ClockWord(h, m)>> \o msg :
         h \in ClockHours, m \in ClockMinutes, msg \in Remainders}

\* the messages given to the classifier
IntentTexts ==
    SeqsUpTo(IntentWords, MaxWords) \cup HelpExamples \cup AmountExamples

\* the word "D.M."
DateWord(d, m) == Numeral(d) \o <<".">> \o Numeral(m) \o <<".">>

\* 15 March and 24 December
DateDays == {<<15, 3>>, <<24, 12>>}

\* "D.M. saat H:MM <msg>"
DateTexts ==
    {<<DateWord(dm[1], dm[2]), saat, ClockWord(h, m)>> \o msg :
         dm \in DateDays, h \in {14}, m \in {30}, msg \in Remainders}

\* the messages given to the time parser
ParserTexts ==
    TimeTexts \cup BareClockTexts \cup ReminderExamples \cup DateTexts

NotRun == [notrun |-> TRUE]

Users == {1, 2}

MaxUpdates == 2

MaxTicks == 2

\* 11 April of year 1 at 10:00:30
BotStart == Year + 100 * Day + 10 * Hour + 30

BotTimes == BotStart..(BotStart + MaxTicks)

\* the text messages that the users send
BotMessages ==
    {<<<<"5", "0", "0">>, <<"T", "L">>, <<"h", "a", "r", "c", "a", "d", "ii", "m">>>>,
     <<<<"5", "0", "0", "0">>, <<"T", "L">>, <<"a", "r", "a", "b", "a">>, <<"s", "a", "t", "t", "ii", "m">>>>,
     <<<<"0">>, <<"T", "L">>, <<"h", "a", "r", "c", "a", "d", "ii", "m">>>>,
     <<<<"r", "a", "p", "o", "r">>>>,
     <<<<"y", "a", "r", "ii", "n">>, <<"1", "4", ":", "3", "0">>, <<"t", "o", "p", "l", "a", "n", "t", "ii">>>>,
     <<<<"y", "a", "r", "ii", "n">>, <<"s", "a", "a", "t">>, <<"1", "4", ":", "3", "0">>>>,
     <<<<"m", "e", "r", "h", "a", "b", "a">>>>,
     <<<<"s", "ii", "f", "ii", "r", "l", "a">>>>,
     <<<<"t", "a", "k", "v", "i", "m">>>>,
     <<<<"?">>>>}

\* detect_intent and parse_time_from_text on the messages of the users
BotIntents == [m \in BotMessages |-> detect_intent(Join(m))]

BotParses ==
    [m \in BotMessages |->
        [t \in BotTimes |-> parse_time_from_text(Join(m), t)]]

botvars ==
    <<transactions, users, requests, chat_manager, sent, updates, query_failed>>

\* the state of the task bot: the table tasks and the reply to the last
\* command
taskvars == <<tasks, task_reply>>

NoTaskReply ==
    [command |-> "none", user_id |-> 0, kind |-> "none", task_id |-> 0,
     rows |-> <<>>]

vars ==
    <<text, now, intent, fin, parsed, events, replies, transactions, users,
      requests, chat_manager, sent, updates, query_failed, tasks, task_reply,
      calls>>

\* the bot after construction: an empty database, no request seen, no chat;
\* query_failed tells whether the query of get_financial_summary made for the
\* last update raised
\* setup_database of the task bot on a new database file: the table tasks
\* is empty
InitTaskBot ==
    /\ tasks = <<>>
    /\ task_reply = NoTaskReply

\* calls is the log of the calls made to one object alone: the user, the
\* time and the answer of each
InitBot ==
    /\ InitTaskBot
    /\ calls = <<>>
    /\ transactions = <<>>
    /\ users = [u \in Users |-> NoRow]
    /\ requests = [u \in Users |-> <<>>]
    /\ chat_manager = [sessions |-> <<>>, last_activity |-> <<>>, started |-> 0]
    /\ sent = <<>>
    /\ updates = 0
    /\ query_failed = FALSE

(***************************************************************************)
(* The classifier applied to one message                                   *)
(***************************************************************************)
InitIntent ==
    /\ text \in IntentTexts
    /\ now = 0
    /\ intent = NotRun
    /\ fin = NotRun
    /\ parsed = NotRun
    /\ events = <<>>
    /\ replies = <<>>
    /\ InitBot

DetectIntent ==
    /\ intent = NotRun
    /\ intent' = detect_intent(Join(text))
    /\ UNCHANGED <<text, now, fin, parsed, events, replies, botvars, taskvars, calls>>

DetectFinancialIntent ==
    /\ fin = NotRun
    /\ fin' = detect_financial_intent(Join(text))
    /\ UNCHANGED <<text, now, intent, parsed, events, replies, botvars, taskvars, calls>>

NextIntent == DetectIntent \/ DetectFinancialIntent

SpecIntent == InitIntent /\ [][NextIntent]_vars

(***************************************************************************)
(* The time parser and the reminder handler applied to one message         *)
(***************************************************************************)
InitTime ==
    /\ text \in ParserTexts
    /\ now \in NowValues
    /\ intent = NotRun
    /\ fin = NotRun
    /\ parsed = NotRun
    /\ events = <<>>
    /\ replies = <<>>
    /\ InitBot

ParseTime ==
    /\ parsed = NotRun
    /\ parsed' = parse_time_from_text(Join(text), now)
    /\ UNCHANGED <<text, now, intent, fin, events, replies, botvars, taskvars, calls>>

HandleReminder ==
    /\ replies = <<>>
    /\ \E calendar_ok \in BOOLEAN :
           LET r == handle_reminder(events,
                                    parse_time_from_text(Join(text), now),
                                    calendar_ok)
           IN  /\ events' = r.events
               /\ replies' = r.replies
    /\ UNCHANGED <<text, now, intent, fin, parsed, botvars, taskvars, calls>>

NextTime == ParseTime \/ HandleReminder

SpecTime == InitTime /\ [][NextTime]_vars

(***************************************************************************)
(* The bot: updates of the users arrive one at a time and each is handled  *)
(* to its end; the clock ticks between them                                *)
(***************************************************************************)
Init ==
    /\ text = <<>>
    /\ now = BotStart
    /\ intent = NotRun
    /\ fin = NotRun
    /\ parsed = NotRun
    /\ events = <<>>
    /\ replies = <<>>
    /\ InitBot

\* the branch of handle_message that the detected intent selects
Route(user_id, m, intent_result) ==
    \/ /\ intent_result.intent = "financial"
       /\ \E db_ok \in BOOLEAN :
              LET h == handle_financial_transaction(transactions, user_id,
                                                    intent_result.data, now, db_ok)
              IN  /\ transactions' = h.transactions
                  /\ replies' = h.replies
       /\ sent' = <<>>
       /\ query_failed' = FALSE
       /\ UNCHANGED <<events, chat_manager>>
    \/ /\ intent_result.intent = "financial_report"
       /\ \E db_ok \in BOOLEAN :
              /\ replies' = handle_financial_report(
                                transactions, user_id,
                                report_period(lower(intent_result.data)),
                                report_account(lower(intent_result.data)),
                                now, db_ok)
              /\ query_failed' = ~db_ok
       /\ sent' = <<>>
       /\ UNCHANGED <<transactions, events, chat_manager>>
    \/ /\ intent_result.intent = "reminder"
       /\ \E calendar_ok \in BOOLEAN :
              LET h == handle_reminder(events, BotParses[m][now], calendar_ok)
              IN  /\ events' = h.events
                  /\ replies' = h.replies
       /\ sent' = <<>>
       /\ query_failed' = FALSE
       /\ UNCHANGED <<transactions, chat_manager>>
    \/ /\ intent_result.intent = "calendar"
       /\ replies' = <<"calendar_url">>
       /\ sent' = <<>>
       /\ query_failed' = FALSE
       /\ UNCHANGED <<transactions, events, chat_manager>>
    \/ /\ intent_result.intent = "reset_chat"
       /\ chat_manager' = remove_session(chat_manager, user_id)
       /\ replies' = <<"chat_cleared">>
       /\ sent' = <<>>
       /\ query_failed' = FALSE
       /\ UNCHANGED <<transactions, events>>
    \/ /\ intent_result.intent = "help"
       /\ replies' = <<"help">>
       /\ sent' = <<>>
       /\ query_failed' = FALSE
       /\ UNCHANGED <<transactions, events, chat_manager>>
    \/ /\ intent_result.intent = "chat"
       /\ \E ai_ok \in BOOLEAN :
              LET h == handle_chat(chat_manager, user_id, intent_result.data,
                                   now, ai_ok)
              IN  /\ chat_manager' = h.chat
                  /\ sent' = h.sent
                  /\ replies' = h.replies
       /\ query_failed' = FALSE
       /\ UNCHANGED <<transactions, events>>

\* handle_message with update_user_activity called before the rate limit
\* check
handle_message_activity_first(user_id, m) ==
    LET limit == is_allowed(requests, user_id, now)
    IN  /\ updates < MaxUpdates
        /\ updates' = updates + 1
        /\ text' = m
        /\ requests' = limit.requests
        /\ \E db_ok \in BOOLEAN :
               users' = update_user_activity(users, user_id, now, db_ok)
        /\ UNCHANGED <<now, fin, parsed, taskvars, calls>>
        /\ IF ~limit.allowed
           THEN /\ replies' = <<"rate_limit_error">>
                /\ intent' = NotRun
                /\ sent' = <<>>
                /\ query_failed' = FALSE
                /\ UNCHANGED <<transactions, events, chat_manager>>
           ELSE /\ intent' = BotIntents[m]
                /\ Route(user_id, m, BotIntents[m])

\* handle_message
HandleMessage(user_id, m) ==
    LET limit == is_allowed(requests, user_id, now)
    IN  /\ updates < MaxUpdates
        /\ updates' = updates + 1
        /\ text' = m
        /\ requests' = limit.requests
        /\ UNCHANGED <<now, fin, parsed, taskvars, calls>>
        /\ IF ~limit.allowed
           THEN /\ replies' = <<"rate_limit_error">>
                /\ intent' = NotRun
                /\ sent' = <<>>
                /\ query_failed' = FALSE
                /\ UNCHANGED <<users, transactions, events, chat_manager>>
           ELSE /\ \E db_ok \in BOOLEAN :
                       users' = update_user_activity(users, user_id, now, db_ok)
                /\ intent' = BotIntents[m]
                /\ Route(user_id, m, BotIntents[m])

\* what a command or a button leaves alone
CommandFrame ==
    /\ updates < MaxUpdates
    /\ updates' = updates + 1
    /\ text' = <<>>
    /\ intent' = NotRun
    /\ sent' = <<>>
    /\ UNCHANGED <<now, fin, parsed, requests, taskvars, calls>>

\* /start
StartCommand(user_id) ==
    /\ CommandFrame
    /\ \E db_ok \in BOOLEAN :
           users' = update_user_activity(users, user_id, now, db_ok)
    /\ replies' = <<"welcome">>
    /\ query_failed' = FALSE
    /\ UNCHANGED <<transactions, events, chat_manager>>

\* /yardim and /help
HelpCommand(user_id) ==
    /\ CommandFrame
    /\ replies' = <<"help">>
    /\ query_failed' = FALSE
    /\ UNCHANGED <<users, transactions, events, chat_manager>>

\* /hesap: the report of "bu ay genel durum"
AccountSummaryCommand(user_id) ==
    /\ CommandFrame
    /\ \E db_ok \in BOOLEAN :
           /\ replies' = handle_financial_report(transactions, user_id, "month",
                                                 "none", now, db_ok)
           /\ query_failed' = ~db_ok
    /\ UNCHANGED <<users, transactions, events, chat_manager>>

\* /rapor
DetailedReportCommand(user_id) ==
    /\ CommandFrame
    /\ replies' = <<"report_menu">>
    /\ query_failed' = FALSE
    /\ UNCHANGED <<users, transactions, events, chat_manager>>

\* /takvim
CalendarCommand(user_id) ==
    /\ CommandFrame
    /\ replies' = <<"calendar_url">>
    /\ query_failed' = FALSE
    /\ UNCHANGED <<users, transactions, events, chat_manager>>

\* /temizle
ClearChatCommand(user_id) ==
    /\ CommandFrame
    /\ chat_manager' = remove_session(chat_manager, user_id)
    /\ replies' = <<"chat_cleared">>
    /\ query_failed' = FALSE
    /\ UNCHANGED <<users, transactions, events>>

\* the buttons whose handling reads the database
SummaryButtons == {"financial_summary"} \cup DOMAIN report_suffix

\* button_callback
ButtonCallback(user_id, data) ==
    /\ CommandFrame
    /\ chat_manager' = IF data = "new_chat"
                       THEN remove_session(chat_manager, user_id)
                       ELSE chat_manager
    /\ \E db_ok \in IF data \in SummaryButtons THEN BOOLEAN ELSE {TRUE} :
           /\ query_failed' = ~db_ok
           /\ replies' =
               CASE data = "financial_summary" ->
                        <<format_financial_summary(
                              get_financial_summary(transactions, user_id,
                                                    "month", "none", now, db_ok))>>
                 [] data = "detailed_report" -> <<"report_menu">>
                 [] data \in DOMAIN report_suffix ->
                        IF report_suffix[data] \in ReportPeriods
                        THEN <<format_financial_summary(
                                   get_financial_summary(
                                       transactions, user_id,
                                       report_suffix[data], "none", now, db_ok))>>
                        ELSE <<format_financial_summary(
                                   get_financial_summary(
                                       transactions, user_id, "month",
                                       report_suffix[data], now, db_ok))>>
                 [] data = "calendar" -> <<"calendar_url">>
                 [] data = "new_chat" -> <<"chat_cleared">>
                 [] data = "help" -> <<"quick_help">>
                 [] OTHER -> <<"add_transaction_hint">>
    /\ UNCHANGED <<users, transactions, events>>

\* a second passes
Tick ==
    /\ now < BotStart + MaxTicks
    /\ now' = now + 1
    /\ UNCHANGED <<text, intent, fin, parsed, events, replies, botvars, taskvars, calls>>

Next ==
    \/ \E user_id \in Users, m \in BotMessages : HandleMessage(user_id, m)
    \/ \E user_id \in Users : StartCommand(user_id)
    \/ \E user_id \in Users : HelpCommand(user_id)
    \/ \E user_id \in Users : AccountSummaryCommand(user_id)
    \/ \E user_id \in Users : DetailedReportCommand(user_id)
    \/ \E user_id \in Users : CalendarCommand(user_id)
    \/ \E user_id \in Users : ClearChatCommand(user_id)
    \/ \E user_id \in Users, data \in CallbackData : ButtonCallback(user_id, data)
    \/ Tick

Spec == Init /\ [][Next]_vars

(***************************************************************************)
(* The rate limiter alone: users call is_allowed, the clock ticks between  *)
(* the calls                                                               *)
(***************************************************************************)
MaxCalls == 4

\* a call of is_allowed
IsAllowed(user_id) ==
    /\ Len(calls) < MaxCalls
    /\ requests' = is_allowed(requests, user_id, now).requests
    /\ calls' = Append(calls,
                       [user_id |-> user_id, time |-> now,
                        allowed |-> is_allowed(requests, user_id, now).allowed])
    /\ UNCHANGED <<text, now, intent, fin, parsed, events, replies,
                   transactions, users, chat_manager, sent, updates,
                   query_failed, taskvars>>

NextLimiter ==
    \/ \E user_id \in Users : IsAllowed(user_id)
    \/ Tick

SpecLimiter == Init /\ [][NextLimiter]_vars

(***************************************************************************)
(* The session manager alone: users ask for their session or remove it,    *)
(* the clock ticks between the calls                                       *)
(***************************************************************************)
SessionUsers == {1, 2, 3}

\* what a call of the session manager leaves alone
SessionFrame ==
    UNCHANGED <<text, now, intent, fin, parsed, events, replies, transactions,
                users, requests, sent, updates, query_failed, taskvars>>

\* a call of get_or_create_session, as handle_chat makes it; the log keeps
\* the session returned
GetOrCreateSession(user_id) ==
    /\ Len(calls) < MaxCalls
    /\ chat_manager' = get_or_create_session(chat_manager, user_id, now)
    /\ calls' = Append(calls,
                       [user_id |-> user_id, time |-> now,
                        op      |-> "get_or_create_session",
                        session |-> get_or_create_session(
                                        chat_manager, user_id,
                                        now).sessions[user_id]])
    /\ SessionFrame

\* a call of remove_session, as clear_chat_command, the button "new_chat"
\* and a message with the intent reset_chat make it
RemoveSession(user_id) ==
    /\ Len(calls) < MaxCalls
    /\ chat_manager' = remove_session(chat_manager, user_id)
    /\ calls' = Append(calls, [user_id |-> user_id, time |-> now,
                               op |-> "remove_session", session |-> 0])
    /\ SessionFrame

NextSessions ==
    \/ \E user_id \in SessionUsers : GetOrCreateSession(user_id)
    \/ \E user_id \in SessionUsers : RemoveSession(user_id)
    \/ Tick

SpecSessions == Init /\ [][NextSessions]_vars

(***************************************************************************)
(* The task bot (telegram_bot_backup.py): its commands act on the table    *)
(* tasks, one at a time; the clock ticks between them                      *)
(***************************************************************************)
MaxTasks == 2

\* the arguments given to /gorev_ekle: none, and "Alisveris yap"
TaskArgs ==
    {<<>>,
     <<<<"A", "l", "ii", "sh", "v", "e", "r", "i", "sh">>, <<"y", "a", "p">>>>}

\* the arguments given to /gorev_tamam: none, a word that is no number, and
\* the numerals 0 .. MaxTasks + 1
CompleteArgs ==
    {<<>>, <<<<"a", "b">>>>} \cup {<<Numeral(k)>> : k \in 0..(MaxTasks + 1)}

\* the rows of tasks that a condition selects, as a set
TaskRows(cond(_)) == {tasks[i] : i \in {j \in 1..Len(tasks) : cond(tasks[j])}}

\* the orders in which ORDER BY created_at DESC may return rows: rows of the
\* same second come in any order
OrderedByCreatedDesc(rows) ==
    {q \in [1..Cardinality(rows) -> rows] :
        /\ \A i, j \in 1..Cardinality(rows) : i # j => q[i] # q[j]
        /\ \A i, j \in 1..Cardinality(rows) :
               i < j => q[i].created_at >= q[j].created_at}

\* what every command of the task bot leaves alone
TaskFrame ==
    UNCHANGED <<text, now, intent, fin, parsed, events, replies, botvars,
                calls>>

\* /gorev_ekle
AddTaskCommand(user_id, args) ==
    /\ Len(tasks) < MaxTasks
    /\ IF args = <<>>
       THEN /\ task_reply' = [command |-> "gorev_ekle", user_id |-> user_id,
                              kind |-> "usage", task_id |-> 0, rows |-> <<>>]
            /\ tasks' = tasks
       ELSE /\ tasks' = Append(tasks, [id         |-> Len(tasks) + 1,
                                       user_id    |-> user_id,
                                       title      |-> Join(args),
                                       priority   |-> "medium",
                                       completed  |-> FALSE,
                                       created_at |-> now])
            /\ task_reply' = [command |-> "gorev_ekle", user_id |-> user_id,
                              kind |-> "added", task_id |-> Len(tasks) + 1,
                              rows |-> <<>>]
    /\ TaskFrame

\* /gorevler
ListTasksCommand(user_id) ==
    /\ \E q \in OrderedByCreatedDesc(
                    TaskRows(LAMBDA r : r.user_id = user_id /\ ~r.completed)) :
           task_reply' = [command |-> "gorevler", user_id |-> user_id,
                          kind |-> IF q = <<>> THEN "no_tasks" ELSE "list",
                          task_id |-> 0, rows |-> q]
    /\ tasks' = tasks
    /\ TaskFrame

\* /gorev_tamam with the task looked up and updated by its id alone
complete_task_of_any_user(user_id, args) ==
    /\ IF args = <<>>
       THEN /\ task_reply' = [command |-> "gorev_tamam", user_id |-> user_id,
                              kind |-> "usage", task_id |-> 0, rows |-> <<>>]
            /\ tasks' = tasks
       ELSE IF \E i \in 1..Len(args[1]) : args[1][i] \notin Digits
       THEN /\ task_reply' = [command |-> "gorev_tamam", user_id |-> user_id,
                              kind |-> "invalid_id", task_id |-> 0,
                              rows |-> <<>>]
            /\ tasks' = tasks
       ELSE IF TaskRows(LAMBDA r : r.id = int(args[1])) = {}
       THEN /\ task_reply' = [command |-> "gorev_tamam", user_id |-> user_id,
                              kind |-> "not_found", task_id |-> int(args[1]),
                              rows |-> <<>>]
            /\ tasks' = tasks
       ELSE /\ tasks' = [i \in 1..Len(tasks) |->
                             IF tasks[i].id = int(args[1])
                             THEN [tasks[i] EXCEPT !.completed = TRUE]
                             ELSE tasks[i]]
            /\ task_reply' = [command |-> "gorev_tamam", user_id |-> user_id,
                              kind |-> "completed", task_id |-> int(args[1]),
                              rows |-> <<>>]
    /\ TaskFrame

\* /gorev_tamam; int() is applied to numerals and to words without digits
CompleteTaskCommand(user_id, args) ==
    /\ IF args = <<>>
       THEN /\ task_reply' = [command |-> "gorev_tamam", user_id |-> user_id,
                              kind |-> "usage", task_id |-> 0, rows |-> <<>>]
            /\ tasks' = tasks
       ELSE IF \E i \in 1..Len(args[1]) : args[1][i] \notin Digits
       THEN /\ task_reply' = [command |-> "gorev_tamam", user_id |-> user_id,
                              kind |-> "invalid_id", task_id |-> 0,
                              rows |-> <<>>]
            /\ tasks' = tasks
       ELSE IF TaskRows(LAMBDA r : r.id = int(args[1])
                                      /\ r.user_id = user_id) = {}
       THEN /\ task_reply' = [command |-> "gorev_tamam", user_id |-> user_id,
                              kind |-> "not_found", task_id |-> int(args[1]),
                              rows |-> <<>>]
            /\ tasks' = tasks
       ELSE /\ tasks' = [i \in 1..Len(tasks) |->
                             IF /\ tasks[i].id = int(args[1])
                                /\ tasks[i].user_id = user_id
                             THEN [tasks[i] EXCEPT !.completed = TRUE]
                             ELSE tasks[i]]
            /\ task_reply' = [command |-> "gorev_tamam", user_id |-> user_id,
                              kind |-> "completed", task_id |-> int(args[1]),
                              rows |-> <<>>]
    /\ TaskFrame

NextTasks ==
    \/ \E user_id \in Users, args \in TaskArgs : AddTaskCommand(user_id, args)
    \/ \E user_id \in Users : ListTasksCommand(user_id)
    \/ \E user_id \in Users, args \in CompleteArgs :
           CompleteTaskCommand(user_id, args)
    \/ Tick

SpecTasks == Init /\ [][NextTasks]_vars

(***************************************************************************)
(* Properties of the classifier (SpecIntent)                               *)
(***************************************************************************)
\* the message as the classifier reads it
Lowered == strip(lower(Join(text)))

\* w stands in s at the start of a word
ContainsPhrase(s, w) ==
    \E i \in 1..Len(s) : HasAt(s, i, w) /\ (i = 1 \/ IsSpace(s[i - 1]))

\* "<a> TL" with the amount a in hundredths
AmountPhrases ==
    {[phrase |-> <<"5", "0", "0", " ", "T", "L">>, amount |-> 50000],
     [phrase |-> <<"1", ",", "5", " ", "T", "L">>, amount |-> 150],
     [phrase |-> <<"1", "0", "0", "0", " ", "T", "L">>, amount |-> 100000],
     [phrase |-> <<"1", "5", "0", "0", " ", "T", "L">>, amount |-> 150000]}

IncomeKeywordCount == CountIn(Lowered, income_keywords)

ExpenseKeywordCount == CountIn(Lowered, expense_keywords)

NoBucketKeyword ==
    /\ CountIn(Lowered, araba_keywords) = 0
    /\ CountIn(Lowered, emlak_keywords) = 0
    /\ CountIn(Lowered, kisisel_keywords) = 0

\* the message holds a currency amount "<number> TL"
HasCurrencyAmount == amount_match(Lowered).start > 0

\* C1: for every amount a > 0, a message that contains "<a> TL" with an
\* income keyword and no expense keyword is classified by detect_intent as
\* a financial transaction of direction gelir and amount a
C1_IncomeOfAmount ==
    \A a \in AmountPhrases :
        (/\ intent # NotRun
         /\ ContainsPhrase(Join(text), a.phrase)
         /\ IncomeKeywordCount > 0
         /\ ExpenseKeywordCount = 0)
        => (/\ intent.intent = "financial"
            /\ intent.data.transaction_type = "gelir"
            /\ intent.data.amount = a.amount)

\* a state in which detect_intent did classify such a message as income
C1_IncomeDetected ==
    /\ intent # NotRun
    /\ ContainsPhrase(Join(text), <<"1", ",", "5", " ", "T", "L">>)
    /\ IncomeKeywordCount > 0
    /\ ExpenseKeywordCount = 0
    /\ intent.intent = "financial"
    /\ intent.data.transaction_type = "gelir"
    /\ intent.data.amount = 150

\* C2 as it is written: a message with an amount, with an income and an
\* expense keyword and with no account keyword has the direction gider
C2_BothKeywordsExpense ==
    (/\ fin # NotRun
     /\ fin # None
     /\ IncomeKeywordCount > 0
     /\ ExpenseKeywordCount > 0
     /\ NoBucketKeyword)
    => fin.transaction_type = "gider"

\* C2, amended: for such a message the direction is gider exactly when more
\* expense keywords than income keywords are found, or as many of each and
\* none of the words satis, komisyon, kazanc, gelir; it is gelir otherwise
C2_BothKeywordsByScore ==
    (/\ fin # NotRun
     /\ fin # None
     /\ IncomeKeywordCount > 0
     /\ ExpenseKeywordCount > 0
     /\ NoBucketKeyword)
    => /\ fin.transaction_type \in {"gelir", "gider"}
       /\ fin.transaction_type = "gider" <=>
              \/ ExpenseKeywordCount > IncomeKeywordCount
              \/ /\ ExpenseKeywordCount = IncomeKeywordCount
                 /\ ~ContainsAny(Lowered, context_income_words)

\* a message with as many income as expense keywords and no context word,
\* classified gider
C2_TieIsExpense ==
    /\ fin # NotRun
    /\ fin # None
    /\ IncomeKeywordCount > 0
    /\ ExpenseKeywordCount = IncomeKeywordCount
    /\ NoBucketKeyword
    /\ fin.transaction_type = "gider"

\* C4: a message that holds a currency amount is classified by detect_intent
\* as a financial transaction, whatever other keywords it holds
C4_AmountIsFinancial ==
    (intent # NotRun /\ HasCurrencyAmount) => intent.intent = "financial"

\* the report keywords that the specification names
NamedReportKeywords ==
    {<<"n", "e", " ", "k", "a", "d", "a", "r">>,
     <<"t", "o", "p", "l", "a", "m">>,
     <<"oe", "z", "e", "t">>,
     <<"r", "a", "p", "o", "r">>,
     <<"d", "u", "r", "u", "m">>}

\* C5: a message with no currency amount and with a report keyword is
\* classified by detect_intent as a financial report request, also when it
\* holds reminder, calendar, reset or help signals
C5_ReportKeywordIsReport ==
    (/\ intent # NotRun
     /\ ~HasCurrencyAmount
     /\ ContainsAny(Lowered, NamedReportKeywords))
    => intent.intent = "financial_report"

\* C6: a message with no currency amount and no report keyword that holds a
\* reminder keyword or a time pattern is classified as a reminder
C6_ReminderSignalIsReminder ==
    (/\ intent # NotRun
     /\ ~HasCurrencyAmount
     /\ ~ContainsAny(Lowered, report_keywords)
     /\ \/ ContainsAny(Lowered, reminder_keywords)
        \/ ContainsAny(Lowered, time_words)
        \/ HasClockTime(Lowered))
    => intent.intent = "reminder"

(***************************************************************************)
(* Properties of the time parser and of handle_reminder (SpecTime)         *)
(***************************************************************************)
\* midnight of the day of t
DayStart(t) == (t \div Day) * Day

\* C3: when the time computed from a bare "H:MM" is earlier than now and
\* the text holds neither yarin nor sonra, parse_time_from_text returns the
\* computed time plus one day
C3_PastClockRolledForward ==
    \A h \in ClockHours, m \in ClockMinutes, msg \in Remainders :
        (/\ parsed # NotRun
         /\ text = <<ClockWord(h, m)>> \o msg
         /\ DayStart(now) + h * Hour + m * Minute < now)
        => (/\ parsed.found
            /\ parsed.time = DayStart(now) + h * Hour + m * Minute + Day)

\* C7: "yarin saat H:MM <msg>" at time T gives the day after T at H:MM:00
\* and the residual message <msg>, for every hour H, minute M and every
\* <msg> that holds no time expression of its own
C7_TomorrowWithTime ==
    \A h \in ClockHours, m \in ClockMinutes, msg \in Remainders :
        (parsed # NotRun /\ text = <<yarin, saat, ClockWord(h, m)>> \o msg)
        => (/\ parsed.found
            /\ parsed.time = DayStart(now) + Day + h * Hour + m * Minute
            /\ parsed.message = Join(msg))

\* "yarin saat 14:30 toplanti" parsed to tomorrow 14:30:00 and "toplanti"
C7_TomorrowParsed ==
    /\ parsed # NotRun
    /\ text = <<yarin, saat, ClockWord(14, 30),
                <<"t", "o", "p", "l", "a", "n", "t", "ii">>>>
    /\ parsed.found
    /\ parsed.time = DayStart(now) + Day + 14 * Hour + 30 * Minute
    /\ parsed.message = <<"t", "o", "p", "l", "a", "n", "t", "ii">>

\* C8 as it is written: "N saat sonra <msg>" at time T gives T + N hours
\* and the residual message <msg>, for every N
C8_HoursLaterEveryN ==
    \A n \in LaterHours, msg \in Remainders :
        (parsed # NotRun /\ text = <<Numeral(n), saat, sonra>> \o msg)
        => (/\ parsed.found
            /\ parsed.time = now + n * Hour
            /\ parsed.message = Join(msg))

\* C8, amended: "N saat sonra <msg>" at time T gives exactly T + N hours,
\* with no roll forward, and the residual message <msg>, for every N of at
\* most 8760 (N hours are at most 365 days); for a greater N no time is
\* found and the text comes back as it was
C8_HoursLaterWithinYear ==
    \A n \in LaterHours, msg \in Remainders :
        (parsed # NotRun /\ text = <<Numeral(n), saat, sonra>> \o msg)
        => IF n <= 8760
           THEN /\ parsed.found
                /\ parsed.time = now + n * Hour
                /\ parsed.message = Join(msg)
           ELSE /\ ~parsed.found
                /\ parsed.message = Join(text)

\* "2 saat sonra alisveris" parsed to T + 2 hours and "alisveris"
C8_TwoHoursLaterParsed ==
    /\ parsed # NotRun
    /\ text = <<Numeral(2), saat, sonra,
                <<"a", "l", "ii", "sh", "v", "e", "r", "i", "sh">>>>
    /\ parsed.found
    /\ parsed.time = now + 2 * Hour
    /\ parsed.message = <<"a", "l", "ii", "sh", "v", "e", "r", "i", "sh">>

C10_StoredTransactionsValid ==
    \A i \in 1..Len(transactions) :
        /\ transactions[i].amount > 0
        /\ transactions[i].transaction_type \in {"gelir", "gider"}
        /\ transactions[i].account_type \in {"araba", "emlak", "kisisel"}

\* two messages have been stored: an expense and an income of the car
\* business
C10_TwoStored ==
    /\ Len(transactions) = 2
    /\ transactions[1].transaction_type = "gider"
    /\ transactions[2].transaction_type = "gelir"
    /\ transactions[2].account_type = "araba"

\* a step in which handle_message has routed a message that detect_intent
\* classified as a financial transaction
FinancialMessageHandled ==
    /\ updates' = updates + 1
    /\ intent' # NotRun
    /\ intent'.intent = "financial"

\* the rows stored before the step are the first rows after it, unchanged
StoredRowsKept ==
    /\ Len(transactions') >= Len(transactions)
    /\ SubSeq(transactions', 1, Len(transactions)) = transactions

\* C12 as it is written: no step modifies or deletes a stored transaction,
\* every matched financial message adds exactly one transaction and nothing
\* else changes the stored rows
C12_EveryFinancialMessageStored ==
    [][/\ StoredRowsKept
       /\ FinancialMessageHandled => Len(transactions') = Len(transactions) + 1
       /\ ~FinancialMessageHandled => transactions' = transactions]_vars

\* C12, amended: no step modifies or deletes a stored transaction; a matched
\* financial message adds exactly one transaction, that of the message, when
\* the write succeeds and is confirmed, and adds none when the write fails
\* and the database error is sent; nothing else changes the stored rows
C12_AppendOnly ==
    [][/\ StoredRowsKept
       /\ FinancialMessageHandled =>
              \/ /\ replies' = <<"transaction_confirmation", "quick_actions">>
                 /\ Len(transactions') = Len(transactions) + 1
                 /\ transactions'[Len(transactions')].amount = intent'.data.amount
                 /\ transactions'[Len(transactions')].transaction_type =
                        intent'.data.transaction_type
              \/ /\ replies' = <<"database_error">>
                 /\ transactions' = transactions
       /\ ~FinancialMessageHandled => transactions' = transactions]_vars

\* a transaction was stored by the first update and is still there, as it
\* was, after a second update that was a command, a button or a message of
\* another kind
C12_StoredThenKept ==
    /\ updates = 2
    /\ Len(transactions) = 1
    /\ transactions[1].id = 1
    /\ (intent = NotRun \/ intent.intent # "financial")

\* the financial transaction detected in the message txt passes the
\* threshold
FinancialRuleMatches(txt) ==
    /\ detect_financial_intent(txt) # None
    /\ detect_financial_intent(txt).confidence > FinancialThreshold

\* none of the six rules of detect_intent matches the lowered message s of
\* txt, which is not empty
NoRuleMatchesIn(txt, s) ==
    /\ s # <<>>
    /\ ~FinancialRuleMatches(txt)
    /\ ~_is_financial_report_request(s)
    /\ _get_reminder_confidence(s) <= ReminderThreshold
    /\ ~_is_calendar_request(s)
    /\ ~_is_reset_request(s)
    /\ ~_is_help_request(s)

\* the messages of the users that no rule matches
UnmatchedMessages ==
    {m \in BotMessages : NoRuleMatchesIn(Join(m), strip(lower(Join(m))))}

\* no rule matches the message of the last update
NoRuleMatches == text \in UnmatchedMessages

\* C13: when no rule matches a non-empty message, detect_intent returns the
\* chat intent with the original text, and handle_message hands exactly that
\* text to the chat session of the generative model
C13_ChatForwardedVerbatim ==
    (intent # NotRun /\ NoRuleMatches)
    => /\ intent.intent = "chat"
       /\ intent.data = Join(text)
       /\ Len(sent) = 1
       /\ sent[1].text = Join(text)

\* the message "merhaba" was classified as chat and handed to the session
C13_GreetingForwarded ==
    /\ text = <<<<"m", "e", "r", "h", "a", "b", "a">>>>
    /\ intent # NotRun
    /\ intent.intent = "chat"
    /\ sent # <<>>
    /\ sent[1].text = <<"m", "e", "r", "h", "a", "b", "a">>

\* C14: when the call of the generative model fails while a chat message is
\* handled, the call is not made again and the user gets the AI apology and
\* no answer of the model
C14_AiFailureApology ==
    /\ Len(sent) <= 1
    /\ (sent # <<>> /\ ~sent[1].ok) => replies = <<"ai_error">>
    /\ (sent # <<>> /\ sent[1].ok) => replies = <<"ai_response">>

\* the call of the generative model for "merhaba" has failed and the apology
\* was sent
C14_FailedCallAnswered ==
    /\ text = <<<<"m", "e", "r", "h", "a", "b", "a">>>>
    /\ Len(sent) = 1
    /\ ~sent[1].ok
    /\ replies = <<"ai_error">>

(***************************************************************************)
(* Properties of the failure paths                                         *)
(***************************************************************************)
\* handle_reminder has got as far as the call of create_calendar_event
EventRequested ==
    /\ parsed # NotRun
    /\ parsed.found
    /\ Len(strip(parsed.message)) >= MinMessageLen
    /\ replies # <<>>

\* C15: when the calendar event could not be created handle_reminder sends
\* the calendar error and not the confirmation; the confirmation is sent
\* only when the event was created, with the message and the time parsed
C15_CalendarFailureReported ==
    /\ (EventRequested /\ events = <<>>) => replies = <<"calendar_error">>
    /\ replies = <<"calendar_error">> => events = <<>>
    /\ (EventRequested /\ replies = <<"reminder_set">>)
       => /\ Len(events) = 1
          /\ events[1].title = parsed.message
          /\ events[1].start = parsed.time

\* the calendar has refused the event of a reminder and the error was sent
C15_CalendarErrorSent ==
    /\ EventRequested
    /\ events = <<>>
    /\ replies = <<"calendar_error">>

\* C16: when the query of get_financial_summary fails while a report is
\* produced (text request, /hesap or a report button), the user gets an
\* apology and not a report
C16_QueryFailureApology ==
    query_failed => /\ replies # <<"no_transactions">>
                    /\ replies # <<"financial_summary">>

(***************************************************************************)
(* Properties of the detected transaction (SpecIntent)                     *)
(***************************************************************************)
\* C17: the direction of a detected transaction is that of the greater
\* keyword count; with equal counts it is gelir when one of the words satis,
\* komisyon, kazanc, gelir stands in the message and gider otherwise
C17_DirectionByCounts ==
    (fin # NotRun /\ fin # None)
    => fin.transaction_type =
           IF IncomeKeywordCount > ExpenseKeywordCount THEN "gelir"
           ELSE IF ExpenseKeywordCount > IncomeKeywordCount THEN "gider"
           ELSE IF ContainsAny(Lowered, context_income_words) THEN "gelir"
           ELSE "gider"

\* a transaction with equal keyword counts that a context word made gelir
C17_TieBrokenByContext ==
    /\ fin # NotRun
    /\ fin # None
    /\ IncomeKeywordCount = ExpenseKeywordCount
    /\ ContainsAny(Lowered, context_income_words)
    /\ fin.transaction_type = "gelir"

\* the categories of the account and direction of the detected transaction
CategoryVocabulary == categories(fin.account_type, fin.transaction_type)

\* a word of a category of that vocabulary, "diger" aside, stands in the
\* message
CategoryWordOccurs ==
    \E k \in 1..Len(CategoryVocabulary) :
        /\ CategoryVocabulary[k] # diger
        /\ ContainsAny(Lowered, category_words(CategoryVocabulary[k]))

\* C18: a detected transaction has the account kisisel when no account
\* keyword stands in the message; its category is one of the categories of
\* its account and direction, and is "diger" when no word of those
\* categories stands in the message
C18_AccountAndCategoryDefaults ==
    (fin # NotRun /\ fin # None)
    => /\ NoBucketKeyword => fin.account_type = "kisisel"
       /\ \E k \in 1..Len(CategoryVocabulary) :
              fin.category = CategoryVocabulary[k]
       /\ ~CategoryWordOccurs => fin.category = diger

\* a transaction without account keyword and without category word, with
\* the account kisisel and the category "diger"
C18_DefaultsTaken ==
    /\ fin # NotRun
    /\ fin # None
    /\ NoBucketKeyword
    /\ ~CategoryWordOccurs
    /\ fin.account_type = "kisisel"
    /\ fin.category = diger

\* the amount expression that detect_financial_intent parsed in the lowered
\* message: the match of the amount pattern, number and "tl"
ParsedAmountExpression ==
    SubSeq(Lowered, amount_match(Lowered).start, amount_match(Lowered).end - 1)

\* C19: the description of a detected transaction is what is left of the
\* message without the amount expression, written with "." or with ",": it
\* never contains the amount expression that was parsed, and it is never
\* empty
C19_DescriptionWithoutAmount ==
    (fin # NotRun /\ fin # None)
    => /\ fin.description # <<>>
       /\ ~Contains(lower(fin.description), ParsedAmountExpression)

(***************************************************************************)
(* Properties of the order of the patterns (SpecTime)                      *)
(***************************************************************************)
\* the first pattern of the list that matches the lowered message, 0 when
\* none does
FirstMatchingPattern ==
    MinOrZero({p \in 1..NumPatterns : search(p, Lowered) > 0})

\* the leftmost match of pattern p in the lowered message
LeftmostMatch(p) == PatternAt(p, Lowered, search(p, Lowered), FALSE)

\* pattern p matches the lowered message, its transform raises nothing and
\* the time it gives passes _is_valid_time
PatternYieldsTime(p) ==
    /\ search(p, Lowered) > 0
    /\ ~time_func(p, now, LeftmostMatch(p).groups).raised
    /\ _is_valid_time(time_func(p, now, LeftmostMatch(p).groups).time,
                      now, Lowered)

\* the first pattern of the list that yields a time, 0 when none does
FirstYieldingPattern ==
    MinOrZero({p \in 1..NumPatterns : PatternYieldsTime(p)})

\* C20 as stated: the result of parse_time_from_text comes from the first
\* pattern of the list that matches the message, and no later pattern is
\* used once an earlier one has matched
C20_FirstMatchDecides ==
    (parsed # NotRun /\ parsed.found)
    => parsed.pattern = FirstMatchingPattern

\* C20 as amended: the result of parse_time_from_text comes from the first
\* pattern of the list that matches the message and whose transform gives,
\* without raising, a time that passes _is_valid_time: time and matched
\* expression are those of that pattern, no later pattern is used, and the
\* result is (None, text, None) when no pattern yields a time
C20_FirstYieldingMatchDecides ==
    parsed # NotRun
    => IF FirstYieldingPattern = 0
       THEN ~parsed.found /\ parsed.message = Join(text)
       ELSE /\ parsed.found
            /\ parsed.pattern = FirstYieldingPattern
            /\ parsed.time =
                   time_func(FirstYieldingPattern, now,
                             LeftmostMatch(FirstYieldingPattern).groups).time
            /\ parsed.expr =
                   SubSeq(Lowered, search(FirstYieldingPattern, Lowered),
                          LeftmostMatch(FirstYieldingPattern).end - 1)

\* a result taken from a pattern that stands after the first matching one,
\* whose transform raised or whose time was not valid
C20_LaterPatternUsed ==
    /\ parsed # NotRun
    /\ parsed.found
    /\ FirstMatchingPattern # 0
    /\ parsed.pattern > FirstMatchingPattern

(***************************************************************************)
(* Properties of the residual message (SpecTime)                           *)
(***************************************************************************)
\* the message without the leftmost match of pattern p, stripped and with
\* its whitespace collapsed
WithoutLeftmostMatch(p) ==
    collapse_spaces(strip(RemoveAt(Join(text),
                                   search(p, Lowered)
                                       ..(LeftmostMatch(p).end - 1))))

\* C21: the residual message of parse_time_from_text is the original text
\* with exactly the matched time expression removed and the whitespace
\* collapsed; every other part of the text, a further time expression
\* included, is kept
C21_OnlyMatchRemoved ==
    (parsed # NotRun /\ parsed.found)
    => parsed.message = WithoutLeftmostMatch(parsed.pattern)

(***************************************************************************)
(* Properties of the task bot (SpecTasks)                                  *)
(***************************************************************************)
\* the task with this id belongs to this user
OwnTask(id, user_id) ==
    \E i \in 1..Len(tasks) : tasks[i].id = id /\ tasks[i].user_id = user_id

\* tasks with the own task of this id marked completed
WithCompleted(id, user_id) ==
    [i \in 1..Len(tasks) |->
        IF tasks[i].id = id /\ tasks[i].user_id = user_id
        THEN [tasks[i] EXCEPT !.completed = TRUE] ELSE tasks[i]]

\* the reply to /gorevler lists exactly the uncompleted tasks of the user
\* who asked
ListIsOwnOpenTasks ==
    task_reply.command = "gorevler"
    => /\ \A k \in 1..Len(task_reply.rows) :
              /\ task_reply.rows[k].user_id = task_reply.user_id
              /\ ~task_reply.rows[k].completed
              /\ \E i \in 1..Len(tasks) : tasks[i] = task_reply.rows[k]
       /\ \A i \in 1..Len(tasks) :
              (tasks[i].user_id = task_reply.user_id /\ ~tasks[i].completed)
              => \E k \in 1..Len(task_reply.rows) :
                     task_reply.rows[k] = tasks[i]

\* C22: /gorev_tamam ID marks a task completed only if the task exists and
\* belongs to the requesting user, and otherwise replies "not found" and
\* changes no task; a completed task stays completed and is never listed
\* again, and /gorevler lists only the uncompleted tasks of the requesting
\* user
C22_CompleteOnlyOwnTask ==
    [][/\ (task_reply'.command = "gorev_tamam"
              /\ task_reply'.kind \in {"completed", "not_found"})
          => IF OwnTask(task_reply'.task_id, task_reply'.user_id)
             THEN /\ task_reply'.kind = "completed"
                  /\ tasks' = WithCompleted(task_reply'.task_id,
                                            task_reply'.user_id)
             ELSE /\ task_reply'.kind = "not_found"
                  /\ tasks' = tasks
       /\ (task_reply'.command = "gorev_tamam"
              /\ task_reply'.kind \in {"usage", "invalid_id"})
          => tasks' = tasks
       /\ \A i \in 1..Len(tasks) :
              tasks[i].completed
              => Len(tasks') >= i /\ tasks'[i].completed
       /\ ListIsOwnOpenTasks'
      ]_vars

\* user 1 has completed the first of two own tasks and the list shows the
\* second one only
C22_CompletedTaskNotListed ==
    /\ Len(tasks) = 2
    /\ tasks[1].user_id = 1
    /\ tasks[2].user_id = 1
    /\ tasks[1].completed
    /\ ~tasks[2].completed
    /\ task_reply.command = "gorevler"
    /\ task_reply.user_id = 1
    /\ Len(task_reply.rows) = 1
    /\ task_reply.rows[1].id = 2

(***************************************************************************)
(* Properties of the rate limiter (SpecLimiter)                            *)
(***************************************************************************)
\* the calls of the user that were answered True at a time in
\* [t, t + RATE_LIMIT_WINDOW)
AllowedInWindow(user_id, t) ==
    {k \in 1..Len(calls) :
        /\ calls[k].user_id = user_id
        /\ calls[k].allowed
        /\ calls[k].time >= t
        /\ calls[k].time < t + RATE_LIMIT_WINDOW}

\* the last call was made by this user
LastCallOf(user_id) ==
    /\ Len(calls') = Len(calls) + 1
    /\ calls'[Len(calls')].user_id = user_id

\* C23: is_allowed answers True for at most max_requests calls of a user
\* inside any window of window_seconds; a refused call is not recorded, and
\* a call of one user leaves the recorded requests of every other user, and
\* so the answers given to them, as they were
C23_AtMostMaxInWindow ==
    [][/\ \A user_id \in Users, t \in BotTimes :
              Cardinality(AllowedInWindow(user_id, t)') <= RATE_LIMIT_REQUESTS
       /\ \A user_id \in Users :
              LastCallOf(user_id)
              => /\ \A other \in Users \ {user_id} :
                        requests'[other] = requests[other]
                 /\ ~calls'[Len(calls')].allowed
                        => /\ Len(requests'[user_id]) <= Len(requests[user_id])
                           /\ \A k \in 1..Len(requests'[user_id]) :
                                  requests'[user_id][k] # now
                                  \/ \E j \in 1..Len(requests[user_id]) :
                                         requests[user_id][j] = now
      ]_vars

\* a user was answered True, then refused within the window, then answered
\* True again once the window had passed, while the other user was answered
\* True in between
C23_RefusedThenAllowed ==
    \E a, b, c, d \in 1..Len(calls) :
        /\ a < b
        /\ b < c
        /\ c < d
        /\ calls[a].user_id = 1 /\ calls[a].allowed
        /\ calls[b].user_id = 1 /\ ~calls[b].allowed
        /\ calls[c].user_id = 2 /\ calls[c].allowed
        /\ calls[d].user_id = 1 /\ calls[d].allowed
        /\ calls[b].time < calls[a].time + RATE_LIMIT_WINDOW

(***************************************************************************)
(* Properties of the session manager (SpecSessions)                        *)
(***************************************************************************)
\* the users with a recorded last-activity time
ActiveUsers(cm) ==
    {cm.last_activity[i].user_id : i \in 1..Len(cm.last_activity)}

\* C25: after any sequence of get_or_create_session and remove_session
\* calls the number of chat sessions is at most max_sessions, and the users
\* with a session are the users with a recorded last-activity time
C25_SessionsBounded ==
    /\ Cardinality(DOMAIN chat_manager.sessions) <= MAX_SESSIONS
    /\ DOMAIN chat_manager.sessions = ActiveUsers(chat_manager)

\* max_sessions sessions exist after a session was removed to make room,
\* no time having passed
C25_FullAfterEviction ==
    /\ now = BotStart
    /\ Cardinality(DOMAIN chat_manager.sessions) = MAX_SESSIONS
    /\ chat_manager.started > MAX_SESSIONS
    /\ \A k \in 1..Len(calls) : calls[k].op = "get_or_create_session"

\* the last-activity time recorded for the user
ActivityTime(user_id) ==
    LET i == CHOOSE i \in 1..Len(chat_manager.last_activity) :
                 chat_manager.last_activity[i].user_id = user_id
    IN  chat_manager.last_activity[i].time

\* the step is a call of get_or_create_session by this user, who has no
\* session
NewUserRequests(user_id) ==
    /\ Len(calls') = Len(calls) + 1
    /\ calls'[Len(calls')].op = "get_or_create_session"
    /\ calls'[Len(calls')].user_id = user_id
    /\ user_id \notin DOMAIN chat_manager.sessions

\* the step removes the session of one of the oldest users of the set
\* kept, not the one of user_id, gives user_id a session and leaves the
\* other sessions of kept as they are
OldestReplaced(kept, user_id) ==
    \E v \in kept \ {user_id} :
        /\ \A w \in kept : ActivityTime(v) <= ActivityTime(w)
        /\ DOMAIN chat_manager'.sessions = (kept \ {v}) \cup {user_id}
        /\ \A w \in kept \ {v} :
               chat_manager'.sessions[w] = chat_manager.sessions[w]

\* the users whose session has been idle for longer than the timeout
ExpiredUsers ==
    {w \in DOMAIN chat_manager.sessions : now - ActivityTime(w) > SESSION_TIMEOUT}

\* C26 as stated: when a new user requests a session while max_sessions
\* sessions exist, exactly one session is removed, that of the user with
\* the oldest last-activity time and never that of the requesting user, and
\* the sessions of all other users are left unchanged
C26_ExactlyOldestRemoved ==
    [][\A user_id \in SessionUsers :
           (/\ NewUserRequests(user_id)
            /\ Cardinality(DOMAIN chat_manager.sessions) = MAX_SESSIONS)
           => OldestReplaced(DOMAIN chat_manager.sessions, user_id)
      ]_vars

\* C26 as amended: when a new user requests a session, the sessions idle
\* for longer than the timeout are removed first; if max_sessions sessions
\* are left, exactly one of them is removed, that of the user with the
\* oldest last-activity time and never that of the requesting user, and if
\* fewer are left none of them is removed; the sessions left are unchanged
C26_OldestOfUnexpiredRemoved ==
    [][\A user_id \in SessionUsers :
           NewUserRequests(user_id)
           => IF Cardinality(DOMAIN chat_manager.sessions \ ExpiredUsers)
                     >= MAX_SESSIONS
              THEN OldestReplaced(DOMAIN chat_manager.sessions \ ExpiredUsers,
                                  user_id)
              ELSE /\ DOMAIN chat_manager'.sessions =
                          (DOMAIN chat_manager.sessions \ ExpiredUsers)
                              \cup {user_id}
                   /\ \A w \in DOMAIN chat_manager.sessions \ ExpiredUsers :
                          chat_manager'.sessions[w] = chat_manager.sessions[w]
      ]_vars

\* user 3 has taken the place of user 1, whose session was older than the
\* session of user 2, and neither had expired
C26_OlderOfTwoEvicted ==
    /\ Len(calls) = 3
    /\ calls[1].user_id = 1 /\ calls[1].op = "get_or_create_session"
    /\ calls[2].user_id = 2 /\ calls[2].op = "get_or_create_session"
    /\ calls[3].user_id = 3 /\ calls[3].op = "get_or_create_session"
    /\ calls[1].time < calls[2].time
    /\ calls[3].time - calls[1].time <= SESSION_TIMEOUT
    /\ DOMAIN chat_manager.sessions = {2, 3}

(***************************************************************************)
(* Properties of the refused message (Spec)                                *)
(***************************************************************************)
\* C24: when a message is refused by the rate limiter, handle_message sends
\* the rate-limit reply only and has no other effect: the user record is not
\* updated, no intent is detected, no transaction is stored, no calendar
\* event is created and no chat session is created or used
C24_RefusedMessageNoEffect ==
    [][(updates' = updates + 1 /\ replies' = <<"rate_limit_error">>)
       => /\ users' = users
          /\ intent' = NotRun
          /\ transactions' = transactions
          /\ events' = events
          /\ chat_manager' = chat_manager
          /\ sent' = <<>>
      ]_vars

\* the second message of a user is refused after the first one was handled
\* and recorded
C24_SecondMessageRefused ==
    /\ updates = 2
    /\ replies = <<"rate_limit_error">>
    /\ \E user_id \in Users :
           /\ Len(requests[user_id]) = RATE_LIMIT_REQUESTS
           /\ users[user_id] # NoRow

\* the calls before call k that were made by the user of call k
EarlierCallsOfUser(k) ==
    {j \in 1..(k - 1) : calls[j].user_id = calls[k].user_id}

\* the last call that the user of call k made before it
LastCallBefore(k) ==
    CHOOSE j \in EarlierCallsOfUser(k) : \A i \in EarlierCallsOfUser(k) : i <= j

\* before call k its user has reset the session, or has left it idle for
\* longer than the timeout
ResetOrIdleBefore(k) ==
    /\ EarlierCallsOfUser(k) # {}
    /\ \/ calls[LastCallBefore(k)].op = "remove_session"
       \/ calls[k].time - calls[LastCallBefore(k)].time > SESSION_TIMEOUT

\* every session handed out after a reset or an idle time is a new one
FreshAfterResetOrIdle ==
    \A k \in 1..Len(calls) :
        (calls[k].op = "get_or_create_session" /\ ResetOrIdleBefore(k))
        => \A i \in 1..(k - 1) :
               calls[i].op = "get_or_create_session"
               => calls[i].session # calls[k].session

\* C27: after a user's chat session has been reset or has been idle for
\* longer than the session timeout, the session that answers the user's next
\* chat message is a newly created one, never the old one; the reset of one
\* user's session leaves the session of every other user unchanged
C27_NewSessionAfterReset ==
    [][/\ FreshAfterResetOrIdle'
       /\ (Len(calls') = Len(calls) + 1
              /\ calls'[Len(calls')].op = "remove_session")
          => \A w \in SessionUsers \ {calls'[Len(calls')].user_id} :
                 /\ w \in DOMAIN chat_manager'.sessions
                        <=> w \in DOMAIN chat_manager.sessions
                 /\ w \in DOMAIN chat_manager.sessions
                        => chat_manager'.sessions[w] = chat_manager.sessions[w]
      ]_vars

\* user 1 chats, resets and chats again at once in another session, while
\* the session that user 2 had before is still the same
C27_ChatResetChat ==
    /\ Len(calls) = 4
    /\ calls[1].user_id = 2 /\ calls[1].op = "get_or_create_session"
    /\ calls[2].user_id = 1 /\ calls[2].op = "get_or_create_session"
    /\ calls[3].user_id = 1 /\ calls[3].op = "remove_session"
    /\ calls[4].user_id = 1 /\ calls[4].op = "get_or_create_session"
    /\ calls[4].time = calls[2].time
    /\ calls[4].session # calls[2].session
    /\ 2 \in DOMAIN chat_manager.sessions
    /\ chat_manager.sessions[2] = calls[1].session

(***************************************************************************)
(* Properties of the confirmation (Spec)                                   *)
(***************************************************************************)
\* the update handled by the step sent the confirmation of a transaction
ConfirmationSent ==
    \E k \in 1..Len(replies') : replies'[k] = "transaction_confirmation"

\* the step committed one row to the table transactions
RowCommitted ==
    /\ Len(transactions') = Len(transactions) + 1
    /\ SubSeq(transactions', 1, Len(transactions)) = transactions

\* C28: handle_financial_transaction sends the confirmation if and only if
\* the transaction was committed to storage; when the insert fails nothing
\* is stored and the user receives the database error reply and no
\* confirmation
C28_ConfirmationIffCommitted ==
    [][updates' = updates + 1
       => /\ ConfirmationSent <=> RowCommitted
          /\ (FinancialMessageHandled /\ ~RowCommitted)
             => /\ transactions' = transactions
                /\ replies' = <<"database_error">>
      ]_vars

\* a transaction was confirmed and stored, and the next one failed: the
\* database error reply was sent and the table holds the first row only
C28_SecondInsertFailed ==
    /\ updates = 2
    /\ Len(transactions) = 1
    /\ intent # NotRun
    /\ intent.intent = "financial"
    /\ replies = <<"database_error">>

(***************************************************************************)
(* Properties of the choice among the candidates (SpecIntent)              *)
(***************************************************************************)
\* the place of an intent in the order financial, report, reminder,
\* calendar, reset, help
IntentRank(i) ==
    CASE i = "financial" -> 1
      [] i = "financial_report" -> 2
      [] i = "reminder" -> 3
      [] i = "calendar" -> 4
      [] i = "reset_chat" -> 5
      [] i = "help" -> 6
      [] OTHER -> 7

\* the confidence with which an intent is a candidate for the message, 0
\* when it is none; fin is the result of detect_financial_intent on the
\* message
CandidateConfidence(i) ==
    CASE i = "financial" ->
             IF fin = None THEN 0
             ELSE IF fin.confidence > FinancialThreshold
                  THEN fin.confidence ELSE 0
      [] i = "financial_report" ->
             IF ContainsAny(Lowered, report_keywords) THEN 800 ELSE 0
      [] i = "reminder" ->
             IF _get_reminder_confidence(Lowered) > ReminderThreshold
             THEN _get_reminder_confidence(Lowered) ELSE 0
      [] i = "calendar" ->
             IF ContainsAny(Lowered, calendar_keywords) THEN 900 ELSE 0
      [] i = "reset_chat" ->
             IF ContainsAny(Lowered, reset_keywords) THEN 900 ELSE 0
      [] i = "help" ->
             IF ContainsAny(Lowered, help_keywords) THEN 900 ELSE 0

CandidateIntents ==
    {i \in {"financial", "financial_report", "reminder", "calendar",
            "reset_chat", "help"} : CandidateConfidence(i) > 0}

DateAndTime(d, m, h, mi) ==
    IF datetime(year_of(now), m, d, h, mi, 0).time < now
    THEN datetime(year_of(now) + 1, m, d, h, mi, 0).time
    ELSE datetime(year_of(now), m, d, h, mi, 0).time

\* C30: for a message with a date and a time of the form "D.M. saat HH:MM"
\* parse_time_from_text returns day D of month M at HH:MM, of the next year
\* if that moment of this year has passed
C30_DateWithTimeParsed ==
    \A dm \in DateDays, msg \in Remainders :
        (/\ parsed # NotRun
         /\ text = <<DateWord(dm[1], dm[2]), saat, ClockWord(14, 30)>> \o msg)
        => /\ parsed.found
           /\ parsed.time = DateAndTime(dm[1], dm[2], 14, 30)

====
